---- MODULE Spec2Model ----
(***************************************************************************)
(* A model of the PowerOcean extraction engine                             *)
(* (custom_components/powerocean/ecoflow.py, class Ecoflow).               *)
(*                                                                         *)
(* JSON values are tagged tuples:                                          *)
(*   <<"null">>            Python None                                     *)
(*   <<"num", n>>          a number                                        *)
(*   <<"text", s>>         a str whose content is not valid JSON           *)
(*   <<"json", v>>         a str whose content is the JSON encoding of v   *)
(*   <<"obj", pairs>>      a dict; pairs is the sequence of <<key, value>> *)
(*                         in insertion order                              *)
(*   <<"arr", items>>      a list                                          *)
(*   <<"datum", v>>        a jsonpath match object (DatumInContext)        *)
(* Python strings used as keys, names and ids are TLA+ strings.            *)
(***************************************************************************)
EXTENDS Integers, Sequences, FiniteSets, TLC

VARIABLES
    sn,             \* Ecoflow.sn: the installation's own serial
    sn_inverter,    \* Ecoflow.sn_inverter
    ecoflow_variant, \* Ecoflow.ecoflow_variant: the model id of the device
    sensor_config,  \* Ecoflow.sensor_config: <<"None">> or <<"list", reports>>
    config_file,    \* the content of variants/sensors_83.yaml
    datapointfile,  \* the content of the variant's datapoint file
    role,           \* the DeviceRole suffix handed to the report handlers
    server,         \* the reply the cloud endpoint gives to a fetch
    response,       \* the response document object the caller holds
    sensors,        \* the output mapping: unique_id -> PowerOceanEndPoint
    emitted,        \* the endpoints produced since the mapping was created, in order
    ret,            \* how the last call ended: <<"return">>, <<"raise", exc>>, ...
    op,             \* the last operation and its arguments
    calls,          \* number of extraction calls made on the response object
    first,          \* what the first _get_sensors call on this object returned
    hass,           \* sensor.py: the registered sensor entities and the registry
    flow            \* config_flow.py: the PowerOceanConfigFlow in progress

vars == <<sn, sn_inverter, ecoflow_variant, sensor_config, config_file, datapointfile, role, server,
          response, sensors, emitted, ret, op, calls, first, hass, flow>>

----------------------------------------------------------------------------
(* Bounds of the model *)

MaxSensors == 2     \* sensor specs per report of the variant schema
MaxPacks == 3       \* repeated sub-objects in a report body
MaxCalls == 2       \* extraction calls on one response object
MaxSteps == 2       \* handler steps sharing one output mapping
MaxStrings == 3     \* photovoltaic strings of the EMS heartbeat
MaxDevices == 2     \* records of the parallel energy stream

(* Program constants *)

LENGTH_BATTERIE_SN == 12

----------------------------------------------------------------------------
(* Python helpers *)

Null == <<"null">>
Num(n) == <<"num", n>>
Text(s) == <<"text", s>>
Json(v) == <<"json", v>>
Obj(pairs) == <<"obj", pairs>>
Arr(items) == <<"arr", items>>
Datum(v) == <<"datum", v>>

IsDict(v) == v[1] = "obj"
IsList(v) == v[1] = "arr"
IsStr(v) == v[1] \in {"text", "json"}
IsNum(v) == v[1] = "num"

Range(s) == {s[i] : i \in 1..Len(s)}

\* key in d
HasKey(d, k) == \E i \in 1..Len(d[2]) : d[2][i][1] = k

\* d[k]
Get(d, k) == LET i == CHOOSE j \in 1..Len(d[2]) : d[2][j][1] = k IN d[2][i][2]

\* list(d.keys())
Keys(d) == [i \in 1..Len(d[2]) |-> d[2][i][1]]

\* bool(v)
Truthy(v) ==
    CASE v[1] = "null" -> FALSE
      [] v[1] = "num" -> v[2] # 0
      [] v[1] = "text" -> v[2] # ""
      [] v[1] = "obj" -> Len(v[2]) > 0
      [] v[1] = "arr" -> Len(v[2]) > 0
      [] OTHER -> TRUE

\* c in s, for a one-character c
RECURSIVE InStr(_, _)
InStr(c, s) ==
    IF Len(s) = 0 THEN FALSE
    ELSE IF SubSeq(s, 1, 1) = c THEN TRUE
    ELSE InStr(c, SubSeq(s, 2, Len(s)))

\* s.replace(a, b), for a one-character a
RECURSIVE ReplaceChar(_, _, _)
ReplaceChar(s, a, b) ==
    IF Len(s) = 0 THEN s
    ELSE (IF SubSeq(s, 1, 1) = a THEN b ELSE SubSeq(s, 1, 1))
             \o ReplaceChar(SubSeq(s, 2, Len(s)), a, b)

\* s.replace(sub, "")
RECURSIVE RemoveAll(_, _)
RemoveAll(s, sub) ==
    IF Len(s) < Len(sub) THEN s
    ELSE IF SubSeq(s, 1, Len(sub)) = sub
         THEN RemoveAll(SubSeq(s, Len(sub) + 1, Len(s)), sub)
         ELSE SubSeq(s, 1, 1) \o RemoveAll(SubSeq(s, 2, Len(s)), sub)

\* s.split(c), for a one-character c
RECURSIVE SplitAcc(_, _, _)
SplitAcc(s, c, cur) ==
    IF Len(s) = 0 THEN <<cur>>
    ELSE IF SubSeq(s, 1, 1) = c
         THEN <<cur>> \o SplitAcc(SubSeq(s, 2, Len(s)), c, "")
         ELSE SplitAcc(SubSeq(s, 2, Len(s)), c, cur \o SubSeq(s, 1, 1))

Split(s, c) == SplitAcc(s, c, "")

\* int(s) succeeds (a run of decimal digits)
RECURSIVE AllDigits(_)
AllDigits(s) ==
    IF Len(s) = 0 THEN TRUE
    ELSE /\ SubSeq(s, 1, 1) \in {"0", "1", "2", "3", "4", "5", "6", "7", "8", "9"}
         /\ AllDigits(SubSeq(s, 2, Len(s)))

IsInt(s) == Len(s) > 0 /\ AllDigits(s)

\* json_loads(s) for a str s: the decoded value, or JSONDecodeError
JsonDecodes(s) == s[1] = "json"
json_loads(s) == s[2]

----------------------------------------------------------------------------
(* Ecoflow.deserialize_json_strings *)

RECURSIVE deserialize_json_strings(_)
deserialize_json_strings(data) ==
    IF IsDict(data)
    THEN Obj([i \in 1..Len(data[2]) |->
                <<data[2][i][1], deserialize_json_strings(data[2][i][2])>>])
    ELSE IF IsList(data)
    THEN Arr([i \in 1..Len(data[2]) |-> deserialize_json_strings(data[2][i])])
    ELSE IF IsStr(data)
    THEN (IF JsonDecodes(data) THEN json_loads(data) ELSE data)
    ELSE data

\* The object `data` as the call leaves it: dicts and lists are rewritten in
\* place, a str is immutable and only the returned value is decoded.
MutatedInPlace(data) ==
    IF IsDict(data) \/ IsList(data) THEN deserialize_json_strings(data) ELSE data

\* response.get("data")
ResponseData(resp) == IF HasKey(resp, "data") THEN Get(resp, "data") ELSE Null

\* The response object after _get_sensors has run deserialize_json_strings on
\* response.get("data").
ResponseAfter(resp) ==
    IF HasKey(resp, "data")
    THEN Obj([i \in 1..Len(resp[2]) |->
                IF resp[2][i][1] = "data"
                THEN <<"data", MutatedInPlace(resp[2][i][2])>>
                ELSE resp[2][i]])
    ELSE resp

----------------------------------------------------------------------------
(* jsonpath_ng: expr.find(data) for a dotted path of child steps, "*" being *)
(* the wildcard over the children of a dict, in insertion order.            *)

RECURSIVE Flatten(_)
Flatten(ss) == IF ss = <<>> THEN <<>> ELSE Head(ss) \o Flatten(Tail(ss))

RECURSIVE FindSteps(_, _)
FindSteps(steps, v) ==
    IF steps = <<>> THEN <<v>>
    ELSE IF ~IsDict(v) THEN <<>>
    ELSE IF Head(steps) = "*"
    THEN Flatten([i \in 1..Len(v[2]) |-> FindSteps(Tail(steps), v[2][i][2])])
    ELSE IF HasKey(v, Head(steps))
    THEN FindSteps(Tail(steps), Get(v, Head(steps)))
    ELSE <<>>

\* jsonpath_parse(expr_str).find(data), expr_str starting with "$"
Find(expr_str, data) == FindSteps(Tail(Split(expr_str, ".")), data)

----------------------------------------------------------------------------
(* const.py: SENSOR_META, the unit and icon of a field name ("None" where   *)
(* the table has no entry or the entry gives None).                         *)

SENSOR_META_unit(key) ==
    CASE key \in {"sysLoadPwr", "sysGridPwr", "mpptPwr", "bpPwr", "dcdcPwr",
                  "pv1Pwr", "pvInvPwr", "pv2Pwr", "pv3Pwr", "emsBpPower",
                  "pcsActPwr", "pcsMeterPower", "evPwr", "heatingPower",
                  "targetPower"} -> "W"
      [] key \in {"todayElectricityGeneration", "monthElectricityGeneration",
                  "yearElectricityGeneration", "totalElectricityGeneration",
                  "bpTotalChgEnergy", "bpTotalDsgEnergy", "bpRemainWatth",
                  "evChargingEnergy"} -> "kWh"
      [] key \in {"bpSoc", "bpSoh", "selfcheckPercent"} -> "%"
      [] key \in {"bpVol"} -> "V"
      [] key \in {"bpAmp", "evCurrSet"} -> "A"
      [] key \in {"bpEnvTemp", "bpMinCellTemp", "bpMaxCellTemp", "temp",
                  "targetTemp"} -> "Â°C"
      [] key \in {"waterTankVolume"} -> "L"
      [] OTHER -> "None"

SENSOR_META_icon(key) == IF key = "bpSoh" THEN "mdi:battery-heart" ELSE "None"

\* PowerOceanEndPoint
PowerOceanEndPoint(uid, serial, name, friendly, value, unit, description, icon) ==
    [internal_unique_id |-> uid, serial |-> serial, name |-> name,
     friendly_name |-> friendly, value |-> value, unit |-> unit,
     description |-> description, icon |-> icon]

EmptyDict == [u \in {} |-> Null]

Returned == <<"return">>
Raised(exc) == <<"raise", exc>>
Hangs == <<"hang">>

----------------------------------------------------------------------------
(* Ecoflow._extract_sensors_from_jsonpath *)

\* a per_instance ordering that keeps discovery order
KeepOrder(s) == s

Reverse(s) == [i \in 1..Len(s) |-> s[Len(s) + 1 - i]]

\* the text after the first occurrence of the character c in s
RECURSIVE AfterFirst(_, _)
AfterFirst(s, c) ==
    IF Len(s) = 0 THEN ""
    ELSE IF SubSeq(s, 1, 1) = c THEN SubSeq(s, 2, Len(s))
    ELSE AfterFirst(SubSeq(s, 2, Len(s)), c)

\* The while loop that rewrites array indices of expr_str: it is entered when
\* the path holds both "[" and "]"; int() of the index text raises ValueError
\* for a non-integer such as "*", and for an integer index the rewritten path
\* still holds both brackets, so the loop never ends.
IndexLoop(expr_str) ==
    IF InStr("[", expr_str) /\ InStr("]", expr_str)
    THEN (IF IsInt(Split(AfterFirst(expr_str, "["), "]")[1])
          THEN Hangs ELSE Raised("ValueError"))
    ELSE Returned

\* a null match counted as 1
OrOne(v) == IF Truthy(v) THEN v ELSE Num(1)

\* m.value or 0
OrZero(v) == IF Truthy(v) THEN v ELSE Num(0)

\* sum(m.value or 0 for m in matches) is defined: every term is a number
SumDefined(matches) == \A i \in 1..Len(matches) : IsNum(OrZero(matches[i]))

RECURSIVE SumOf(_)
SumOf(matches) ==
    IF matches = <<>> THEN 0 ELSE OrZero(Head(matches))[2] + SumOf(Tail(matches))

\* field.replace(".", "_").replace("[*]", "")
FieldKey(field) == RemoveAll(ReplaceChar(field, ".", "_"), "[*]")

\* field.split(".")[-1]
MetaKey(field) == LET parts == Split(field, ".") IN parts[Len(parts)]

\* "$" for the default report, else "$.quota.<report>"
Base(report) == IF report = "data" THEN "$" ELSE "$.quota." \o report

\* The matches as the emission loop sees them: collapsed by aggregate "sum",
\* then reversed for per_instance.
Ordered(s, matches) ==
    LET collapsed == IF s.aggregate = "sum" THEN <<Num(SumOf(matches))>>
                     ELSE matches
    IN IF s.per_instance THEN Reverse(collapsed) ELSE collapsed

\* The endpoints one sensor spec produces for its matches, in emission order.
Produced(report, s, matches, snv) ==
    LET ms == Ordered(s, matches)
        field_key == FieldKey(s.field)
    IN [idx \in 1..Len(ms) |->
          LET value == IF s.aggregate = "sum" THEN ms[idx]
                       ELSE IF s.aggregate # "" THEN Datum(ms[idx])
                       ELSE ms[idx]
              suffix == IF s.per_instance
                        THEN "_" \o s.instance_name \o ToString(idx)
                        ELSE ""
              unique_id == snv \o "_" \o report \o "_" \o field_key \o suffix
          IN PowerOceanEndPoint(
                 unique_id, snv,
                 snv \o "_" \o field_key \o suffix,
                 IF s.label # "" THEN s.label ELSE field_key \o suffix,
                 value,
                 SENSOR_META_unit(MetaKey(s.field)),
                 "None",
                 SENSOR_META_icon(MetaKey(s.field)))]

\* if unique_id in sensors: continue -- else sensors[unique_id] = endpoint
RECURSIVE StoreFirst(_, _)
StoreFirst(sens, eps) ==
    IF eps = <<>> THEN sens
    ELSE LET e == Head(eps) IN
         StoreFirst(IF e.internal_unique_id \in DOMAIN sens THEN sens
                    ELSE (e.internal_unique_id :> e) @@ sens,
                    Tail(eps))

\* an iteration that goes on when the path matches nothing
SensorStepNoSkip(item, report, s, data, snv, acc) ==
    LET expr_str == Base(report) \o "." \o s.field
        matches == Find(expr_str, data)
    IN IF s.field = "" THEN acc
       ELSE IF IndexLoop(expr_str) # Returned
       THEN [acc EXCEPT !.status = IndexLoop(expr_str)]
       ELSE IF s.aggregate = "sum" /\ ~SumDefined(matches)
       THEN [acc EXCEPT !.status = Raised("TypeError")]
       ELSE LET eps == Produced(report, s, matches, snv) IN
            [acc EXCEPT !.sensors = StoreFirst(acc.sensors, eps),
                        !.emitted = acc.emitted \o
                            [j \in 1..Len(eps) |-> [item |-> item, ep |-> eps[j]]]]

\* One iteration of the loop over report_cfg["sensors"], the item-th of the
\* call; acc is the mapping, the endpoints produced so far (each with the
\* iteration that produced it) and how the call stands.
SensorStep(item, report, s, data, snv, acc) ==
    LET expr_str == Base(report) \o "." \o s.field
        matches == Find(expr_str, data)
    IN IF s.field = "" THEN acc
       ELSE IF IndexLoop(expr_str) # Returned
       THEN [acc EXCEPT !.status = IndexLoop(expr_str)]
       ELSE IF matches = <<>> THEN acc
       ELSE IF s.aggregate = "sum" /\ ~SumDefined(matches)
       THEN [acc EXCEPT !.status = Raised("TypeError")]
       ELSE LET eps == Produced(report, s, matches, snv) IN
            [acc EXCEPT !.sensors = StoreFirst(acc.sensors, eps),
                        !.emitted = acc.emitted \o
                            [j \in 1..Len(eps) |-> [item |-> item, ep |-> eps[j]]]]

\* the (report, sensor spec) pairs in the order the two loops visit them
RECURSIVE WorkItems(_)
WorkItems(reports) ==
    IF reports = <<>> THEN <<>>
    ELSE LET r == Head(reports) IN
         (IF r.has_sensors
          THEN [i \in 1..Len(r.sensors) |-> <<r.report, r.sensors[i]>>]
          ELSE <<>>) \o WorkItems(Tail(reports))

RECURSIVE RunItems(_, _, _, _, _)
RunItems(items, item, data, snv, acc) ==
    IF item > Len(items) \/ acc.status # Returned THEN acc
    ELSE RunItems(items, item + 1, data, snv,
                  SensorStep(item, items[item][1], items[item][2], data, snv, acc))

\* _extract_sensors_from_jsonpath(data, sensors): iterating sensor_config
\* raises TypeError while it is None.
extract_sensors_from_jsonpath(cfg, data, sens, snv) ==
    IF cfg[1] = "None"
    THEN [sensors |-> sens, emitted |-> <<>>, status |-> Raised("TypeError")]
    ELSE RunItems(WorkItems(cfg[2]), 1, data, snv,
                  [sensors |-> sens, emitted |-> <<>>, status |-> Returned])

----------------------------------------------------------------------------
(* Ecoflow._get_sensors *)

\* The result of _get_sensors(response): the mapping, the endpoints produced,
\* how the call ends, and the decoded data object the extraction read.
get_sensors(cfg, resp, own) ==
    LET data == deserialize_json_strings(ResponseData(resp)) IN
    IF ~IsDict(data)
    THEN [sensors |-> EmptyDict, emitted |-> <<>>, status |-> Returned,
          data |-> data]
    ELSE LET r == extract_sensors_from_jsonpath(cfg, data, EmptyDict, own) IN
         [sensors |-> r.sensors, emitted |-> r.emitted, status |-> r.status,
          data |-> data]

----------------------------------------------------------------------------
(* Ecoflow.get_json_response and Ecoflow.fetch_data *)

\* get_json_response(reply): Returned, or the exception it raises.  A body
\* that is not JSON ends in AttributeError: the handler of the parse error
\* reads json_loads.JsonParseError, which the function does not have.
get_json_response(reply) ==
    IF ~reply.ok THEN Raised("ApiResponseError")
    ELSE IF ~JsonDecodes(reply.text) THEN Raised("AttributeError")
    ELSE LET body == json_loads(reply.text) IN
         IF ~IsDict(body) \/ ~HasKey(body, "message") THEN Raised("KeyError")
         ELSE IF Get(body, "message") # Text("success")
         THEN Raised("ApiResponseError")
         ELSE IF ~HasKey(body, "data") THEN Raised("KeyError")
         ELSE Returned

\* a flattening that accepts any value
FlattenAnything(data) == Returned

\* flatten_json(data) reads data.items(): AttributeError unless data is a dict
flatten_json(data) == IF IsDict(data) THEN Returned ELSE Raised("AttributeError")

fetch_data(cfg, reply, own) ==
    IF get_json_response(reply) # Returned
    THEN [sensors |-> EmptyDict, emitted |-> <<>>,
          status |-> get_json_response(reply), data |-> Null]
    ELSE LET resp == json_loads(reply.text) IN
         IF flatten_json(ResponseData(resp)) # Returned
         THEN [sensors |-> EmptyDict, emitted |-> <<>>,
               status |-> flatten_json(ResponseData(resp)), data |-> Null]
         ELSE get_sensors(cfg, resp, own)

----------------------------------------------------------------------------
(* Ecoflow._load_sensor_config *)

\* The list _load_sensor_config returns for the content of the file: the
\* reports, or [] when the content is not a dict with a list of reports.
load_sensor_config(file) ==
    IF file[1] = "reports" THEN <<"list", file[2]>> ELSE <<"list", <<>>>>

----------------------------------------------------------------------------
(* SensorMetaHelper (ecoflow.py): unit, description and icon of a key, "None" *)
(* standing for Python None.                                                  *)

UpperCase == "ABCDEFGHIJKLMNOPQRSTUVWXYZ"
LowerCase == "abcdefghijklmnopqrstuvwxyz"

\* s.lower()
RECURSIVE Lower(_)
Lower(s) ==
    IF Len(s) = 0 THEN ""
    ELSE LET c == SubSeq(s, 1, 1)
             up == {i \in 1..Len(UpperCase) : SubSeq(UpperCase, i, i) = c}
         IN (IF up = {} THEN c
             ELSE LET i == CHOOSE u \in up : TRUE IN SubSeq(LowerCase, i, i))
            \o Lower(SubSeq(s, 2, Len(s)))

\* s.endswith(suffix), s.startswith(prefix), sub in s
EndsWith(s, suffix) ==
    Len(s) >= Len(suffix) /\ SubSeq(s, Len(s) - Len(suffix) + 1, Len(s)) = suffix
StartsWith(s, prefix) ==
    Len(s) >= Len(prefix) /\ SubSeq(s, 1, Len(prefix)) = prefix
Contains(s, sub) ==
    \E i \in 1..(Len(s) - Len(sub) + 1) : SubSeq(s, i, i + Len(sub) - 1) = sub

\* re.sub(old, new, s): every occurrence, left to right
RECURSIVE ReplaceAll(_, _, _)
ReplaceAll(s, old, new) ==
    IF Len(s) < Len(old) THEN s
    ELSE IF SubSeq(s, 1, Len(old)) = old
         THEN new \o ReplaceAll(SubSeq(s, Len(old) + 1, Len(s)), old, new)
         ELSE SubSeq(s, 1, 1) \o ReplaceAll(SubSeq(s, 2, Len(s)), old, new)

unit_mapping ==
    << <<"pwr", "W">>, <<"power", "W">>, <<"amp", "A">>, <<"soc", "%">>,
       <<"soh", "%">>, <<"vol", "V">>, <<"watth", "Wh">>, <<"energy", "Wh">>,
       <<"percent", "%">>, <<"volume", "L">>, <<"temp", "°C">> >>

\* a unit inference that looks for the suffixes anywhere in the key
UnitAnywhere(key) ==
    LET hits == {i \in 1..Len(unit_mapping) :
                    Contains(Lower(key), unit_mapping[i][1])}
    IN IF hits # {}
       THEN unit_mapping[CHOOSE i \in hits : \A j \in hits : i <= j][2]
       ELSE "None"

\* the unit of the first suffix of unit_mapping the lowered key ends with
get_unit(key) ==
    LET lowered == Lower(key)
        hits == {i \in 1..Len(unit_mapping) :
                    EndsWith(lowered, unit_mapping[i][1])}
    IN IF hits # {}
       THEN unit_mapping[CHOOSE i \in hits : \A j \in hits : i <= j][2]
       ELSE IF Contains(key, "Generation") THEN "kWh"
       ELSE "None"

\* description_mapping.get(key, key)
get_description(key) ==
    CASE key = "sysLoadPwr" -> "Hausnetz"
      [] key = "sysGridPwr" -> "Stromnetz"
      [] key = "mpptPwr" -> "Solarertrag"
      [] key = "bpPwr" -> "Batterieleistung"
      [] key = "bpSoc" -> "Ladezustand der Batterie"
      [] key = "online" -> "Online"
      [] key = "systemName" -> "System Name"
      [] key = "createTime" -> "Installations Datum"
      [] key = "bpVol" -> "Batteriespannung"
      [] key = "bpAmp" -> "Batteriestrom"
      [] key = "bpCycles" -> "Ladezyklen"
      [] key = "bpTemp" -> "Temperatur der Batteriezellen"
      [] OTHER -> key

get_special_icon(key) ==
    IF StartsWith(key, "pv1") \/ StartsWith(key, "pv2") \/ StartsWith(key, "pv3")
    THEN "mdi:solar-power"
    ELSE CASE key = "mpptPwr" -> "mdi:solar-power"
           [] key = "online" -> "mdi:cloud-check"
           [] key = "sysGridPwr" -> "mdi:transmission-tower-import"
           [] key = "sysLoadPwr" -> "mdi:home-import-outline"
           [] key = "bpAmp" -> "mdi:current-dc"
           [] OTHER -> "None"

----------------------------------------------------------------------------
(* Ecoflow.__read_json_file and Ecoflow._get_sens_select *)

\* The dict read from the datapoint file: {} when the file is missing, is
\* not JSON or does not hold a dict.
read_json_file(file) ==
    IF file[1] = "json" /\ IsDict(file[2]) THEN file[2] ELSE Obj(<<>>)

\* datapoints.get(report, []) when that is a list, else []
get_sens_select(file, report) ==
    LET datapoints == read_json_file(file) IN
    IF HasKey(datapoints, report) /\ IsList(Get(datapoints, report))
    THEN Get(datapoints, report)[2]
    ELSE <<>>

\* key in sens_select
Selected(key, sens_select) == Text(key) \in Range(sens_select)

----------------------------------------------------------------------------
(* The handlers of a report.  Each returns the mapping after its writes, the *)
(* endpoints it wrote in order, and how the call ends; a handler that raises *)
(* has already written into the mapping it was given.                        *)

\* sensors[unique_id] = endpoint, for the endpoints in order
\* a mapping keyed by the endpoint's name instead of its unique_id
RECURSIVE StoreByName(_, _)
StoreByName(sens, eps) ==
    IF eps = <<>> THEN sens
    ELSE StoreByName((Head(eps).name :> Head(eps)) @@ sens, Tail(eps))

RECURSIVE StoreAll(_, _)
StoreAll(sens, eps) ==
    IF eps = <<>> THEN sens
    ELSE StoreAll((Head(eps).internal_unique_id :> Head(eps)) @@ sens, Tail(eps))

Begin(sens) == [sensors |-> sens, emitted |-> <<>>, status |-> Returned]
Wrote(acc, eps) ==
    [acc EXCEPT !.sensors = StoreAll(@, eps), !.emitted = @ \o eps]
Fail(acc, exc) == [acc EXCEPT !.status = Raised(exc)]

\* _handle_standard_mode: the keys of d that are selected and whose value is
\* not a dict; the report is left out of the id of the default report
handle_standard_mode(d, sens, report, sens_select, suffix, snv) ==
    IF ~IsDict(d) THEN Fail(Begin(sens), "AttributeError")
    ELSE LET report_string == IF report = "data" THEN "" ELSE "_" \o report
             picked == SelectSeq(d[2], LAMBDA kv :
                           Selected(kv[1], sens_select) /\ ~IsDict(kv[2]))
         IN Wrote(Begin(sens),
                  [i \in 1..Len(picked) |->
                     LET key == picked[i][1] IN
                     PowerOceanEndPoint(
                         snv \o report_string \o "_" \o key, snv,
                         snv \o "_" \o key \o suffix, key \o suffix,
                         picked[i][2], get_unit(key), get_description(key),
                         get_special_icon(key))])

\* _parse_battery_data(raw_data): the dict, None (Null), or JSONDecodeError
parse_battery_data(raw_data) ==
    IF IsStr(raw_data)
    THEN (IF ~JsonDecodes(raw_data) THEN Raised("JSONDecodeError")
          ELSE IF IsDict(json_loads(raw_data)) THEN json_loads(raw_data)
          ELSE Null)
    ELSE IF IsDict(raw_data) THEN raw_data
    ELSE Null

\* the endpoints of the battery bat, the ibat-th of the reversed batteries
BatteryEndpoints(ibat, bat, d_bat, report, sens_select, suffix, snv) ==
    LET name == "bpack" \o ToString(ibat) \o "_"
        picked == SelectSeq(d_bat[2], LAMBDA kv : Selected(kv[1], sens_select))
    IN [i \in 1..Len(picked) |->
          LET key == picked[i][1] IN
          PowerOceanEndPoint(
              snv \o "_" \o report \o "_" \o bat \o "_" \o key, snv,
              snv \o "_" \o name \o key \o suffix, name \o key \o suffix,
              picked[i][2], get_unit(key), name \o get_description(key),
              get_special_icon(key))]

RECURSIVE BatteryLoop(_, _, _, _, _, _, _, _)
BatteryLoop(ibat, batts, d, report, sens_select, suffix, snv, acc) ==
    IF ibat > Len(batts) \/ acc.status # Returned THEN acc
    ELSE LET d_bat == parse_battery_data(Get(d, batts[ibat])) IN
         BatteryLoop(ibat + 1, batts, d, report, sens_select, suffix, snv,
             IF d_bat[1] = "raise" THEN Fail(acc, "JSONDecodeError")
             ELSE IF IsDict(d_bat)
             THEN Wrote(acc, BatteryEndpoints(ibat, batts[ibat], d_bat, report,
                                              sens_select, suffix, snv))
             ELSE acc)

\* _handle_battery_mode: the keys longer than LENGTH_BATTERIE_SN are the
\* batteries, numbered in reverse
handle_battery_mode(d, sens, report, sens_select, suffix, snv) ==
    IF ~IsDict(d) THEN Fail(Begin(sens), "AttributeError")
    ELSE BatteryLoop(1,
             Reverse(SelectSeq(Keys(d), LAMBDA s : Len(s) > LENGTH_BATTERIE_SN)),
             d, report, sens_select, suffix, snv, Begin(sens))

\* the selected keys of d, whatever their value
EmsScalars(d, report, sens_select, suffix, snv) ==
    LET picked == SelectSeq(d[2], LAMBDA kv : Selected(kv[1], sens_select))
    IN [i \in 1..Len(picked) |->
          LET key == picked[i][1] IN
          PowerOceanEndPoint(
              snv \o "_" \o report \o "_" \o key, snv,
              snv \o "_" \o key \o suffix, key \o suffix,
              picked[i][2], get_unit(key), get_description(key), "None")]

\* every key of the body of a phase
PhaseEndpoints(phase, body, report, suffix, snv) ==
    [i \in 1..Len(body[2]) |->
        LET key == body[2][i][1]
            name == phase \o "_" \o key
        IN PowerOceanEndPoint(
               snv \o "_" \o report \o "_" \o name, snv,
               snv \o "_" \o name \o suffix, name \o suffix,
               body[2][i][2], get_unit(key), get_description(key), "None")]

phases == <<"pcsAPhase", "pcsBPhase", "pcsCPhase">>

\* for phase in phases: for key, value in d[phase].items()
RECURSIVE PhaseLoop(_, _, _, _, _, _)
PhaseLoop(p, d, report, suffix, snv, acc) ==
    IF p > Len(phases) \/ acc.status # Returned THEN acc
    ELSE PhaseLoop(p + 1, d, report, suffix, snv,
             IF ~HasKey(d, phases[p]) THEN Fail(acc, "KeyError")
             ELSE IF ~IsDict(Get(d, phases[p])) THEN Fail(acc, "AttributeError")
             ELSE Wrote(acc, PhaseEndpoints(phases[p], Get(d, phases[p]),
                                            report, suffix, snv)))

\* every key of the i-th string
StringEndpoints(i, string, report, suffix, snv) ==
    [k \in 1..Len(string[2]) |->
        LET key == string[2][k][1]
            n == "mpptPv" \o ToString(i) \o "_" \o key
        IN PowerOceanEndPoint(
               snv \o "_" \o report \o "_mpptHeartBeat_" \o n, snv,
               snv \o "_" \o n \o suffix, n \o suffix,
               string[2][k][2], get_unit(key), get_description(key),
               IF EndsWith(key, "amp") THEN "mdi:current-dc"
               ELSE IF EndsWith(key, "pwr") THEN "mdi:solar-power"
               ELSE "None")]

\* for i in range(n_strings): for key, value in ...["mpptPv"][i].items()
RECURSIVE StringLoop(_, _, _, _, _, _)
StringLoop(i, strings, report, suffix, snv, acc) ==
    IF i > Len(strings) \/ acc.status # Returned THEN acc
    ELSE StringLoop(i + 1, strings, report, suffix, snv,
             IF ~IsDict(strings[i]) THEN Fail(acc, "AttributeError")
             ELSE Wrote(acc, StringEndpoints(i, strings[i], report, suffix, snv)))

\* a string without pwr counted as 1
PwrOrOne(string) == IF HasKey(string, "pwr") THEN Get(string, "pwr") ELSE Num(1)

\* d["mpptHeartBeat"][0]["mpptPv"][i].get("pwr", 0)
PwrOf(string) == IF HasKey(string, "pwr") THEN Get(string, "pwr") ELSE Num(0)

\* sum(...) is defined: every term is a number
TotalDefined(strings) == \A i \in 1..Len(strings) : IsNum(PwrOf(strings[i]))

RECURSIVE TotalPower(_)
TotalPower(strings) ==
    IF strings = <<>> THEN 0 ELSE PwrOf(Head(strings))[2] + TotalPower(Tail(strings))

TotalEndpoint(total_power, report, suffix, snv) ==
    PowerOceanEndPoint(
        snv \o "_" \o report \o "_mpptHeartBeat_mpptPv_pwrTotal", snv,
        snv \o "_mpptPv_pwrTotal" \o suffix, "mpptPv_pwrTotal" \o suffix,
        Num(total_power), "W", "Solarertrag aller Strings", "mdi:solar-power")

\* The mpptPv part: d["mpptHeartBeat"][0]["mpptPv"] is read without a check,
\* so a dict in place of the list raises KeyError, an empty list IndexError,
\* a first entry without mpptPv KeyError, and a value that cannot be indexed
\* or measured TypeError.
EmsMppt(d, report, suffix, snv, acc) ==
    IF ~HasKey(d, "mpptHeartBeat") THEN acc
    ELSE LET hb == Get(d, "mpptHeartBeat") IN
         IF IsDict(hb) THEN Fail(acc, "KeyError")
         ELSE IF ~IsList(hb) THEN Fail(acc, "TypeError")
         ELSE IF hb[2] = <<>> THEN Fail(acc, "IndexError")
         ELSE IF ~IsDict(hb[2][1]) THEN Fail(acc, "TypeError")
         ELSE IF ~HasKey(hb[2][1], "mpptPv") THEN Fail(acc, "KeyError")
         ELSE LET mpptPv == Get(hb[2][1], "mpptPv") IN
              IF IsDict(mpptPv) /\ Len(mpptPv[2]) > 0 THEN Fail(acc, "KeyError")
              ELSE IF ~(IsList(mpptPv) \/ IsDict(mpptPv)) THEN Fail(acc, "TypeError")
              ELSE LET strings == IF IsList(mpptPv) THEN mpptPv[2] ELSE <<>>
                       looped == StringLoop(1, strings, report, suffix, snv, acc)
                   IN IF looped.status # Returned THEN looped
                      ELSE IF ~TotalDefined(strings) THEN Fail(looped, "TypeError")
                      ELSE Wrote(looped, << TotalEndpoint(TotalPower(strings),
                                                          report, suffix, snv) >>)

\* _handle_ems_heartbeat_mode: the selected keys, the three phases when
\* pcsBPhase is there, then the strings and their total
handle_ems_heartbeat_mode(d, sens, report, sens_select, suffix, snv) ==
    IF ~IsDict(d) THEN Fail(Begin(sens), "AttributeError")
    ELSE LET scalars == Wrote(Begin(sens),
                              EmsScalars(d, report, sens_select, suffix, snv))
             phased == IF HasKey(d, phases[2])
                       THEN PhaseLoop(1, d, report, suffix, snv, scalars)
                       ELSE scalars
         IN IF phased.status # Returned THEN phased
            ELSE EmsMppt(d, report, suffix, snv, phased)

\* a serial kept whatever its length
AnyDevSn(device_data) ==
    IF HasKey(device_data, "devSn") /\ IsStr(Get(device_data, "devSn"))
    THEN Get(device_data, "devSn")[2] ELSE ""

\* dev_sn after the fallback: "" when devSn is absent, falsy or shorter than
\* LENGTH_BATTERIE_SN
DevSn(device_data) ==
    LET raw == IF HasKey(device_data, "devSn") THEN Get(device_data, "devSn")
               ELSE Null
    IN IF ~Truthy(raw) THEN ""
       ELSE IF Len(raw[2]) < LENGTH_BATTERIE_SN THEN ""
       ELSE raw[2]

\* every key of a record of paraEnergyStream, under the serial of the record
DeviceEndpoints(device_data, report, own, dev_sn) ==
    LET suffix == IF dev_sn = own THEN "_master"
                  ELSE IF dev_sn # "" THEN "_slave"
                  ELSE "_all"
    IN [i \in 1..Len(device_data[2]) |->
          LET key == device_data[2][i][1] IN
          PowerOceanEndPoint(
              dev_sn \o "_" \o report \o "_paraEnergyStream_" \o key, dev_sn,
              dev_sn \o "_" \o key \o suffix, key \o suffix,
              device_data[2][i][2], get_unit(key), get_description(key),
              get_special_icon(key))]

\* for device_data in para_list: a record that is no dict has no get, and
\* len() of a number raises
RECURSIVE DeviceLoop(_, _, _, _, _)
DeviceLoop(i, para_list, report, own, acc) ==
    IF i > Len(para_list) \/ acc.status # Returned THEN acc
    ELSE DeviceLoop(i + 1, para_list, report, own,
             IF ~IsDict(para_list[i]) THEN Fail(acc, "AttributeError")
             ELSE IF HasKey(para_list[i], "devSn")
                     /\ IsNum(Get(para_list[i], "devSn"))
                     /\ Truthy(Get(para_list[i], "devSn"))
             THEN Fail(acc, "TypeError")
             ELSE Wrote(acc, DeviceEndpoints(para_list[i], report, own,
                                             DevSn(para_list[i]))))

\* _handle_parallel_energy_stream
handle_parallel_energy_stream(d, sens, report, own) ==
    IF IsNum(d) THEN Fail(Begin(sens), "TypeError")
    ELSE IF IsList(d)
    THEN (IF Text("paraEnergyStream") \in Range(d[2])
          THEN Fail(Begin(sens), "AttributeError") ELSE Begin(sens))
    ELSE IF IsStr(d)
    THEN (IF d[1] = "text" /\ Contains(d[2], "paraEnergyStream")
          THEN Fail(Begin(sens), "AttributeError") ELSE Begin(sens))
    ELSE IF ~HasKey(d, "paraEnergyStream") THEN Begin(sens)
    ELSE IF ~IsList(Get(d, "paraEnergyStream")) THEN Fail(Begin(sens), "TypeError")
    ELSE DeviceLoop(1, Get(d, "paraEnergyStream")[2], report, own, Begin(sens))

\* _extract_sensors_from_report_org(response, sensors, report, suffix, mode):
\* a report missing under its JTS1_ name is looked up under RE307_; the line
\* that logs a report without content reads report_to_log, which is bound
\* only when the report was missing under its first name.
extract_sensors_from_report_org(base, sens, report, suffix, mode, file, own, snv) ==
    LET found == HasKey(base, report)
        rep == IF found THEN report ELSE ReplaceAll(report, "JTS1_", "RE307_")
        d == IF HasKey(base, rep) THEN Get(base, rep) ELSE Null
        sens_select == get_sens_select(file, rep)
    IN IF ~Truthy(d)
       THEN (IF found THEN Fail(Begin(sens), "UnboundLocalError") ELSE Begin(sens))
       ELSE CASE mode = "battery" ->
                   handle_battery_mode(d, sens, rep, sens_select, suffix, snv)
              [] mode = "ems_heartbeat" ->
                   handle_ems_heartbeat_mode(d, sens, rep, sens_select, suffix, snv)
              [] mode = "parallel_energy_stream" ->
                   handle_parallel_energy_stream(d, sens, rep, own)
              [] OTHER ->
                   handle_standard_mode(d, sens, rep, sens_select, suffix, snv)

\* _extract_sensors_from_report(response, sensors): the generic extraction
\* run on response.get("data", {}) as it stands
extract_sensors_from_report(cfg, resp, sens, snv) ==
    extract_sensors_from_jsonpath(
        cfg, IF HasKey(resp, "data") THEN Get(resp, "data") ELSE Obj(<<>>), sens, snv)

----------------------------------------------------------------------------
(* The inputs of the model *)

OwnSerial == "SN_INVERTERBOX01"
OtherSerial == "SN_INVERTERBOX02"
Report == "JTS1_BP_STA_REPORT"

\* all sequences over S of length lo..hi
SeqsOf(S, lo, hi) == UNION {[1..n -> S] : n \in lo..hi}

SensorSpec(field, per_instance, aggregate) ==
    [field |-> field, label |-> "", per_instance |-> per_instance,
     instance_name |-> "bpack", aggregate |-> aggregate]

\* sensor specs over a single field, the wildcard over the packs of a report,
\* and the two spellings of an array index
WildSpecs ==
    {SensorSpec("*.bpPwr", p, a) : p \in BOOLEAN, a \in {"", "sum"}}

Specs ==
    WildSpecs
    \cup {SensorSpec("bpPwr", FALSE, a) : a \in {"", "sum"}}
    \cup {SensorSpec("*.bpPwr", FALSE, "avg"),
          [SensorSpec("bpPwr", TRUE, "") EXCEPT !.label = "Power"],
          SensorSpec("packs[*].bpPwr", TRUE, ""),
          SensorSpec("mpptPv[0].pwr", FALSE, "")}

ReportCfg(report, has_sensors, specs) ==
    [report |-> report, has_sensors |-> has_sensors, sensors |-> specs]

\* the report lists a sensor configuration file can hold: one sensor, the
\* default report before another, a report without sensors, no report
ReportLists ==
    {<< ReportCfg(r, TRUE, <<s>>) >> : r \in {"data", Report}, s \in Specs}
    \cup {<< ReportCfg("data", TRUE, << SensorSpec("bpPwr", FALSE, "") >>),
             ReportCfg(Report, TRUE, <<s>>) >> : s \in WildSpecs}
    \cup {<< ReportCfg(Report, FALSE, <<>>) >>, <<>>}

\* several sensors of one report that read the same field
LongReportLists ==
    {<< ReportCfg(Report, TRUE, ss) >> : ss \in SeqsOf(WildSpecs, 2, MaxSensors)}

ConfigFiles ==
    {<<"reports", rs>> : rs \in ReportLists} \cup {<<"invalid">>, <<"missing">>}

LongConfigFiles == {<<"reports", rs>> : rs \in LongReportLists}

\* a report body: an optional scalar field and the packs, one dict per pack
Pack(i, v) == <<"PACK" \o ToString(i), Obj(<< <<"bpPwr", v>> >>)>>

Body(scalar, vals) ==
    Obj((IF scalar = <<>> THEN <<>> ELSE << <<"bpPwr", scalar[1]>> >>)
        \o [i \in 1..Len(vals) |-> Pack(i, vals[i])])

\* the values of the packs: pack i reads i, and at most one pack reads null
PackVals ==
    UNION {{[i \in 1..n |-> IF i = z THEN Null ELSE Num(i)] : z \in 0..n} :
              n \in 0..MaxPacks}

Body0 == Body(<<Num(3)>>, <<Num(1), Num(2)>>)
Body1 == Body(<<>>, <<Num(4)>>)

Quota(body) == <<"quota", Obj(<< <<Report, body>> >>)>>
Parallel ==
    <<"parallel", Obj(<< <<OwnSerial, Obj(<< <<Report, Body0>> >>)>>,
                         <<OtherSerial, Obj(<< <<Report, Body1>> >>)>> >>)>>

\* the values response["data"] can hold
DataValues ==
    \* single inverter, parallel, both or neither, with or without a field
    \* of the default report
    {Obj(top \o q \o par) :
        top \in {<<>>, << <<"bpPwr", Num(5)>> >>},
        q \in {<<>>, << Quota(Body0) >>},
        par \in {<<>>, << Parallel >>}}
    \* the packs of a report
    \cup {Obj(<< Quota(Body(<<>>, vs)) >>) : vs \in PackVals}
    \* strings that hold JSON: the data object, a doubly encoded number, a
    \* pack whose payload holds a numeric string; and a pack without a number
    \cup {Json(Obj(<< <<"bpPwr", Num(5)>>, Quota(Body0) >>)),
          Obj(<< <<"bpPwr", Json(Json(Num(5)))>> >>),
          Obj(<< Quota(Obj(<< <<"PACK1",
                     Json(Obj(<< <<"bpPwr", Json(Num(1))>> >>))>> >>)) >>),
          Obj(<< Quota(Body(<<>>, <<Num(1), Text("n/a")>>)) >>)}
    \* no usable data
    \cup {Null, Arr(<<>>), Text("error"), Num(0)}

Response(d) == Obj(<< <<"message", Text("success")>>, <<"data", d>> >>)

Responses ==
    {Response(d) : d \in DataValues} \cup {Obj(<< <<"message", Text("success")>> >>)}

Reply(r) == [ok |-> TRUE, text |-> Json(r)]

\* the documents the configurations with several sensors are run on
PackReplies ==
    {Reply(Response(Obj(<< Quota(Body(<<>>, vs)) >>))) :
        vs \in {<<Num(1), Num(2), Num(3)>>, <<Null, Num(2)>>, <<Num(1), Text("n/a")>>}}

Replies ==
    {Reply(r) : r \in Responses}
    \cup {[ok |-> FALSE, text |-> Text("Bad Gateway")],
          [ok |-> TRUE, text |-> Text("<html>")],
          [ok |-> TRUE, text |-> Json(Arr(<<>>))],
          [ok |-> TRUE, text |-> Json(Obj(<< <<"data", Obj(<<>>)>> >>))],
          [ok |-> TRUE, text |-> Json(Obj(<< <<"message", Text("failed")>>,
                                             <<"data", Obj(<<>>)>> >>))]}

\* the reports of a pass of handlers
EmsReport == "JTS1_EMS_HEARTBEAT"
ParallelReport == "JTS1_PARALLEL_ENERGY_STREAM_REPORT"
EmptyReport == "JTS1_EMS_CHANGE_REPORT"
MissingReport == "JTS1_EVCHARGING_REPORT"

\* the schema of the generic extraction in a pass
PassReports ==
    << ReportCfg("data", TRUE, << SensorSpec("bpPwr", FALSE, "") >>),
       ReportCfg(Report, TRUE,
                 << [SensorSpec("bpPwr", FALSE, "") EXCEPT !.label = "Power"] >>),
       ReportCfg(EmsReport, TRUE, << SensorSpec("pcsAPhase.vol", FALSE, "") >>) >>

\* the power of the i-th string
StringPwr(i) == CASE i = 1 -> 120 [] i = 2 -> 80 [] i = 3 -> 0 [] OTHER -> 10 * i

String(pwr) == Obj(<< <<"vol", Num(400)>> >> \o pwr)

\* the strings of mpptPv: string i reads StringPwr(i), and at most one string
\* has no pwr or a null pwr
StringLists ==
    UNION {{[i \in 1..n |-> String(IF i = z THEN alt
                                   ELSE << <<"pwr", Num(StringPwr(i))>> >>)] :
               z \in 0..n, alt \in {<<>>, << <<"pwr", Null>> >>}} :
           n \in 0..MaxStrings}

Phase(vol) == Obj(<< <<"vol", Num(vol)>> >>)

EmsBody(mpptHeartBeat) ==
    Obj(<< <<"bpRemainWatth", Num(5000)>>,
           <<"pcsAPhase", Phase(230)>>, <<"pcsBPhase", Phase(231)>>,
           <<"pcsCPhase", Phase(232)>> >> \o mpptHeartBeat)

BatteryBody ==
    Obj(<< <<"bpPwr", Num(3)>>,
           <<"BATTERY_SERIAL_01",
             Json(Obj(<< <<"bpPwr", Num(1)>>, <<"bpSoc", Num(50)>> >>))>>,
           <<"BATTERY_SERIAL_02", Obj(<< <<"bpPwr", Num(2)>> >>)>> >>)

\* the strings under mpptHeartBeat[0].mpptPv
HeartBeat(strings) ==
    << <<"mpptHeartBeat", Arr(<< Obj(<< <<"mpptPv", Arr(strings)>> >>) >>)>> >>

\* a single-inverter document with every report
FullData ==
    Obj(<< <<"bpPwr", Num(5)>>,
           <<"quota",
             Obj(<< <<Report, BatteryBody>>,
                    <<EmsReport,
                      EmsBody(HeartBeat(<< String(<< <<"pwr", Num(120)>> >>) >>))>>,
                    <<EmptyReport, Obj(<<>>)>>,
                    <<"RE307_EDEV_PARAM_REPORT",
                      Obj(<< <<"evPwr", Num(11)>>,
                             <<"evPhases", Arr(<< Num(1), Num(2) >>)>>,
                             <<"evLimits", Obj(<< <<"max", Num(16)>> >>)>>,
                             <<"evMode", Num(3)>> >>)>> >>)>> >>)

\* a single-inverter document with the EMS heartbeat alone
EmsData(mpptHeartBeat) ==
    Obj(<< <<"quota", Obj(<< <<EmsReport, EmsBody(mpptHeartBeat)>> >>)>> >>)

\* the devSn of a record: the own serial, another serial, a serial of 12 and
\* one of 11 characters, "", null, or none
SerialFields ==
    {<< <<"devSn", v>> >> :
        v \in {Text(OwnSerial), Text(OtherSerial), Text("SN_TWELVE_12"),
               Text("SN_ELEVEN_1"), Text(""), Null}}
    \cup {<<>>}

\* the records of paraEnergyStream: the own inverter, other inverters, and a
\* last record of any kind
DeviceLists ==
    {<<>>} \cup
    {[i \in 1..n |-> IF i = n THEN x
                     ELSE IF i = 1 THEN << <<"devSn", Text(OwnSerial)>> >>
                     ELSE << <<"devSn", Text(OtherSerial)>> >>] :
        n \in 1..MaxDevices, x \in SerialFields}

Stream(devices, pwr) ==
    Obj(<< <<"paraEnergyStream",
             Arr([i \in 1..Len(devices) |->
                    Obj(devices[i] \o << <<"sysLoadPwr", Num(pwr + i)>> >>)])>> >>)

\* a document of two inverters, each reporting the stream of all devices
ParallelData(devices) ==
    Obj(<< <<"parallel",
             Obj(<< <<OwnSerial,
                      Obj(<< <<ParallelReport, Stream(devices, 100)>> >>)>>,
                    <<OtherSerial,
                      Obj(<< <<ParallelReport, Stream(devices, 200)>> >>)>> >>)>> >>)

\* the reports of the batteries in which the k-th of three packs holds a
\* string that is not JSON, the others a JSON string or a dict
UndecodedBody(k) ==
    Obj(<< <<"bpPwr", Num(3)>> >> \o
        [i \in 1..3 |->
           <<"BATTERY_SERIAL_0" \o ToString(i),
             IF i = k THEN Text("{\"bpPwr\": ")
             ELSE IF i = (k % 3) + 1 THEN Json(Obj(<< <<"bpPwr", Num(i)>> >>))
             ELSE Obj(<< <<"bpPwr", Num(i)>> >>)>>])

\* a single-inverter document with the report of the batteries alone
BatteryData(body) == Obj(<< <<"quota", Obj(<< <<Report, body>> >>)>> >>)

\* an EMS heartbeat body with the phase objects ps alone, and one string
PartialEmsBody(ps) ==
    Obj(<< <<"bpRemainWatth", Num(5000)>> >>
        \o SelectSeq(<< <<"pcsAPhase", Phase(230)>>, <<"pcsBPhase", Phase(231)>>,
                        <<"pcsCPhase", Phase(232)>> >>, LAMBDA kv : kv[1] \in ps)
        \o HeartBeat(<< String(<< <<"pwr", Num(120)>> >>) >>))

PassDatas ==
    {FullData}
    \cup {Obj(<< <<"quota", Obj(<< <<EmsReport, PartialEmsBody(ps)>> >>)>> >>) :
             ps \in (SUBSET {"pcsAPhase", "pcsBPhase", "pcsCPhase"})
                       \ {{"pcsAPhase", "pcsBPhase", "pcsCPhase"}}}
    \cup {BatteryData(UndecodedBody(k)) : k \in 1..3}
    \cup {EmsData(HeartBeat(strings)) : strings \in StringLists}
    \cup {EmsData(<<>>), EmsData(<< <<"mpptHeartBeat", Arr(<<>>)>> >>)}
    \cup {ParallelData(devices) : devices \in DeviceLists}

\* the datapoint file of the variant: the selected keys of each report
DatapointFile ==
    <<"json",
      Obj(<< <<"data", Arr(<< Text("bpPwr") >>)>>,
             <<Report, Arr(<< Text("bpPwr"), Text("bpSoc") >>)>>,
             <<EmsReport, Arr(<< Text("bpRemainWatth") >>)>>,
             <<"RE307_EDEV_PARAM_REPORT",
               Arr(<< Text("evPwr"), Text("evPhases"), Text("evLimits") >>)>> >>)>>

\* the sub-trees of the response: the quota object, or the object of each
\* inverter under parallel
SubTrees(resp) ==
    LET data == Get(resp, "data") IN
    (IF HasKey(data, "quota") THEN {Get(data, "quota")} ELSE {})
    \cup (IF HasKey(data, "parallel")
          THEN {Get(data, "parallel")[2][i][2] :
                   i \in 1..Len(Get(data, "parallel")[2])}
          ELSE {})

\* the reports a sub-tree holds, under their JTS1_ names, whose name
\* contains mode (ReportMode.X.value in report)
ReportsOf(base, mode) ==
    {r \in {ReplaceAll(base[2][i][1], "RE307_", "JTS1_") : i \in 1..Len(base[2])} :
        Contains(r, mode)}

\* the (response, report) pairs a handler is run on: the reports of each
\* sub-tree whose name contains mode
ReportCalls(resp, mode) ==
    UNION {{<<b, r>> : r \in ReportsOf(b, mode)} : b \in SubTrees(resp)}

\* the pairs the plain handler is run on: the default report of the
\* response, a report no sub-tree holds, and every report of a sub-tree
StandardCalls(resp) ==
    {<<resp, "data">>}
    \cup {<<b, MissingReport>> : b \in SubTrees(resp)}
    \cup ReportCalls(resp, "")

----------------------------------------------------------------------------
(* The engine: construction, loading the schema, extraction *)

NoCall == <<"none">>

\* no config flow has been started
NoFlow ==
    [cur_step |-> "", user_input_from_step_user |-> <<>>, device_info |-> <<>>,
     unique_id |-> "", result |-> <<>>, entries |-> <<>>]

\* hass.data of a Home Assistant in which no config entry is set up
NoEntry == [setup |-> FALSE, device_specific_sensors |-> <<>>, registry |-> <<>>]

\* DeviceRole: the suffixes of a master, a slave, all inverters and a single
\* inverter
DeviceRole == {"_master", "_slave", "_all", ""}

\* Ecoflow.__init__; the caller holds a response document, and the cloud
\* endpoint answers every fetch of this run with the same reply.
Init ==
    /\ sn = OwnSerial
    /\ ecoflow_variant = "83"
    /\ sn_inverter = ""
    /\ sensor_config = <<"None">>
    /\ datapointfile = DatapointFile
    /\ role = ""
    /\ \/ config_file \in ConfigFiles /\ server \in Replies
       \/ config_file \in LongConfigFiles /\ server \in PackReplies
    /\ response = (IF server.ok /\ JsonDecodes(server.text) /\ IsDict(json_loads(server.text))
                   THEN json_loads(server.text)
                   ELSE Obj(<<>>))
    /\ sensors = EmptyDict
    /\ emitted = <<>>
    /\ ret = NoCall
    /\ op = <<"__init__">>
    /\ calls = 0
    /\ first = NoCall
    /\ hass = NoEntry
    /\ flow = NoFlow

\* the model ids the config flow offers
Variants == {"83", "85", "86", "87"}

\* the content of variants/sensors_<variant>.yaml: each model id has a schema
\* of its own, the one of another model than 83 naming that model
sensors_yaml(variant) ==
    IF variant = "83" THEN config_file
    ELSE <<"reports",
           << ReportCfg("data", TRUE,
                        << [SensorSpec("bpPwr", FALSE, "")
                              EXCEPT !.label = "PowerOcean " \o variant] >>) >> >>

\* config_path of _load_sensor_config: variants_dir / "sensors_83.yaml"
config_path == sensors_yaml("83")

\* await load_sensor_config(): reading a missing file raises
LoadSensorConfig ==
    /\ ret # Hangs
    /\ sensor_config' = (IF config_path[1] = "missing" THEN sensor_config
                         ELSE load_sensor_config(config_path))
    /\ ret' = (IF config_path[1] = "missing" THEN Raised("FileNotFoundError")
               ELSE Returned)
    /\ op' = <<"load_sensor_config">>
    /\ UNCHANGED <<sn, hass, flow, ecoflow_variant, sn_inverter, config_file, datapointfile, role, server, response, sensors,
                   emitted, calls, first>>

\* _get_sensors(response) on the document object the caller holds
GetSensors ==
    /\ ret # Hangs
    /\ calls < MaxCalls
    /\ LET r == get_sensors(sensor_config, response, sn) IN
         /\ sn_inverter' = sn
         /\ response' = ResponseAfter(response)
         /\ sensors' = r.sensors
         /\ emitted' = r.emitted
         /\ ret' = r.status
         /\ op' = <<"_get_sensors", r.data>>
         /\ calls' = calls + 1
         /\ first' = (IF calls = 0 THEN <<r.status, r.sensors, sensor_config>>
                      ELSE first)
    /\ UNCHANGED <<sn, hass, flow, ecoflow_variant, sensor_config, config_file, datapointfile, role, server>>

\* fetch_data(): the reply is parsed into a response of its own
FetchData ==
    /\ ret # Hangs
    /\ LET r == fetch_data(sensor_config, server, sn) IN
         /\ sn_inverter' = (IF get_json_response(server) = Returned
                               /\ flatten_json(ResponseData(json_loads(server.text))) = Returned
                            THEN sn ELSE sn_inverter)
         /\ sensors' = r.sensors
         /\ emitted' = r.emitted
         /\ ret' = r.status
         /\ op' = <<"fetch_data", r.data>>
    /\ UNCHANGED <<sn, hass, flow, ecoflow_variant, sensor_config, config_file, datapointfile, role, server, response,
                   calls, first>>

Next == LoadSensorConfig \/ GetSensors \/ FetchData

Spec == Init /\ [][Next]_vars

\* engines of every model id, each with one of a few schema files for model
\* 83 and one of a few replies
InitVariant ==
    /\ sn = OwnSerial
    /\ ecoflow_variant \in Variants
    /\ sn_inverter = ""
    /\ sensor_config = <<"None">>
    /\ datapointfile = DatapointFile
    /\ role = ""
    /\ config_file \in
          {<<"reports", << ReportCfg(r, TRUE, << SensorSpec("bpPwr", FALSE, "") >>) >> >> :
              r \in {"data", Report}} \cup {<<"invalid">>, <<"missing">>}
    /\ server \in {Reply(Response(Obj(d))) :
                      d \in {<< <<"bpPwr", Num(5)>> >>, << Quota(Body0) >>,
                              << <<"bpPwr", Num(5)>>, Quota(Body0) >>}}
    /\ response = json_loads(server.text)
    /\ sensors = EmptyDict
    /\ emitted = <<>>
    /\ ret = NoCall
    /\ op = <<"__init__">>
    /\ calls = 0
    /\ first = NoCall
    /\ hass = NoEntry
    /\ flow = NoFlow

SpecVariant == InitVariant /\ [][Next]_vars

----------------------------------------------------------------------------
(* A pass of report handlers that share one output mapping *)

InitPass ==
    /\ sn = OwnSerial
    /\ ecoflow_variant = "83"
    /\ sn_inverter = OwnSerial
    /\ config_file = <<"reports", PassReports>>
    /\ sensor_config = load_sensor_config(config_file)
    /\ datapointfile = DatapointFile
    /\ role \in DeviceRole
    /\ response \in {Response(d) : d \in PassDatas}
    /\ server = Reply(response)
    /\ sensors = EmptyDict
    /\ emitted = <<>>
    /\ ret = NoCall
    /\ op = <<"_get_sensors">>
    /\ calls = 0
    /\ first = NoCall
    /\ hass = NoEntry
    /\ flow = NoFlow

\* the pass goes on: no step has raised or hangs
PassOpen == ret[1] \notin {"raise", "hang"} /\ calls < MaxSteps

\* the effect of a step that wrote the endpoints eps and ends with status
PassStep(name, base, report, new_sensors, eps, status) ==
    /\ sensors' = new_sensors
    /\ emitted' = emitted \o [j \in 1..Len(eps) |-> [item |-> calls + 1, ep |-> eps[j]]]
    /\ ret' = status
    /\ op' = <<name, base, report>>
    /\ calls' = calls + 1
    /\ UNCHANGED <<sn, hass, flow, ecoflow_variant, sn_inverter, sensor_config, config_file, datapointfile,
                   role, server, response, first>>

ReportOrgStep(name, mode, base, report) ==
    LET r == extract_sensors_from_report_org(base, sensors, report, role, mode,
                                             datapointfile, sn, sn_inverter)
    IN PassStep(name, base, report, r.sensors, r.emitted, r.status)

\* _extract_sensors_from_report_org(response, sensors, report)
StandardMode ==
    /\ PassOpen
    /\ \E call \in StandardCalls(response) :
          ReportOrgStep("_handle_standard_mode", "standard", call[1], call[2])

\* _extract_sensors_from_report_org(..., battery_mode=True)
BatteryMode ==
    /\ PassOpen
    /\ \E call \in ReportCalls(response, "BP_STA_REPORT") :
          ReportOrgStep("_handle_battery_mode", "battery", call[1], call[2])

\* _extract_sensors_from_report_org(..., ems_heartbeat_mode=True)
EmsHeartbeatMode ==
    /\ PassOpen
    /\ \E call \in ReportCalls(response, "EMS_HEARTBEAT") :
          ReportOrgStep("_handle_ems_heartbeat_mode", "ems_heartbeat",
                        call[1], call[2])

\* _extract_sensors_from_report_org(..., parallel_energy_stream_mode=True)
ParallelEnergyStreamMode ==
    /\ PassOpen
    /\ \E call \in ReportCalls(response, "PARALLEL_ENERGY_STREAM_REPORT") :
          ReportOrgStep("_handle_parallel_energy_stream", "parallel_energy_stream",
                        call[1], call[2])

\* _extract_sensors_from_report(response, sensors)
ExtractFromReport ==
    /\ PassOpen
    /\ LET r == extract_sensors_from_report(sensor_config, response, sensors,
                                            sn_inverter)
       IN PassStep("_extract_sensors_from_report", response, "",
                   r.sensors, [j \in 1..Len(r.emitted) |-> r.emitted[j].ep],
                   r.status)

NextPass ==
    \/ StandardMode
    \/ BatteryMode
    \/ EmsHeartbeatMode
    \/ ParallelEnergyStreamMode
    \/ ExtractFromReport

SpecPass == InitPass /\ [][NextPass]_vars

----------------------------------------------------------------------------
(* The helper methods of the engine, each applied to one input *)

\* utils.ReportMode: the report names the dispatcher looks for
ReportMode ==
    {"data", "BP_STA_REPORT", "EDEV_PARAM_REPORT", "EVCHARGING_REPORT",
     "EMS_HEARTBEAT", "PARALLEL_ENERGY_STREAM_REPORT", "EMS_CHANGE_REPORT",
     "ENERGY_STREAM_REPORT"}

\* a report name without the word a ReportMode value starts with
Targets == ReportMode \cup {"BATTERY_REPORT"}

\* what a key of a sub-tree starts with
KeyPrefixes ==
    {"", "JTS1_", "RE307_", "ABC_", "RE307_EMS_PV_INV_", "JTS1_PARALLEL_", "X", "_"}

CandidateKeys == {p \o t : p \in KeyPrefixes, t \in Targets}

\* the same rule without the exception for the energy stream report
MatchesBySuffix(key, report) ==
    key = report \/ (InStr("_", key) /\ EndsWith(AfterFirst(key, "_"), report))

\* _is_matching_report(key, report): the key is the report name, or what
\* follows its first underscore ends with the report name; for the energy
\* stream report what follows the first underscore is the report name
is_matching_report(key, report) ==
    IF key = report THEN TRUE
    ELSE IF ~InStr("_", key) THEN FALSE
    ELSE IF report = "ENERGY_STREAM_REPORT" THEN AfterFirst(key, "_") = report
    ELSE EndsWith(AfterFirst(key, "_"), report)

\* the base64 alphabet and the printable ASCII characters, code 32 first (the
\* grave accent, code 96, is written §)
B64Alphabet == "ABCDEFGHIJKLMNOPQRSTUVWXYZabcdefghijklmnopqrstuvwxyz0123456789+/"
Ascii ==
    " !\"#$%&'()*+,-./0123456789:;<=>?@ABCDEFGHIJKLMNOPQRSTUVWXYZ[\\]^_§abcdefghijklmnopqrstuvwxyz{|}~"

\* s.find(c) + 1 for a one-character c: 0 when c is not in s
IndexIn(c, s) ==
    LET hits == {i \in 1..Len(s) : SubSeq(s, i, i) = c}
    IN IF hits = {} THEN 0 ELSE CHOOSE i \in hits : \A j \in hits : i <= j

\* the 6-bit values of a run of base64 characters, or <<-1>> when a character
\* is not of the alphabet
RECURSIVE Sextets(_)
Sextets(s) ==
    IF Len(s) = 0 THEN <<>>
    ELSE LET v == IndexIn(SubSeq(s, 1, 1), B64Alphabet)
             rest == Sextets(SubSeq(s, 2, Len(s)))
         IN IF v = 0 \/ rest = <<-1>> THEN <<-1>> ELSE <<v - 1>> \o rest

\* the bytes of a run of 6-bit values: three for every four values, and one
\* or two for the two or three values left before the padding
RECURSIVE BytesOf(_)
BytesOf(v) ==
    IF Len(v) < 2 THEN <<>>
    ELSE IF Len(v) = 2 THEN << v[1] * 4 + v[2] \div 16 >>
    ELSE IF Len(v) = 3
    THEN << v[1] * 4 + v[2] \div 16, (v[2] % 16) * 16 + v[3] \div 4 >>
    ELSE << v[1] * 4 + v[2] \div 16, (v[2] % 16) * 16 + v[3] \div 4,
            (v[3] % 4) * 64 + v[4] >> \o BytesOf(SubSeq(v, 5, Len(v)))

\* bytes.decode(): the text of the bytes, all of them printable ASCII
RECURSIVE TextOf(_)
TextOf(b) ==
    IF Len(b) = 0 THEN ""
    ELSE SubSeq(Ascii, b[1] - 31, b[1] - 31) \o TextOf(Tail(b))

\* base64.b64decode(s, validate=True).decode(): the text, or an error when s
\* is not padded base64 or its bytes are not text
b64decode(s) ==
    LET pad == IF EndsWith(s, "==") THEN 2 ELSE IF EndsWith(s, "=") THEN 1 ELSE 0
        body == SubSeq(s, 1, Len(s) - pad)
        v == Sextets(body)
    IN IF Len(s) % 4 # 0 \/ v = <<-1>> \/ Len(body) % 4 = 1
       THEN Raised("binascii.Error")
       ELSE IF \E i \in 1..Len(BytesOf(v)) :
                  BytesOf(v)[i] < 32 \/ BytesOf(v)[i] > 126
       THEN Raised("UnicodeDecodeError")
       ELSE Text(TextOf(BytesOf(v)))

\* a decoder without the fallback: the error of the decoding comes out
DecodeOrRaise(value) ==
    IF ~Truthy(value) THEN Null ELSE b64decode(value[2])

\* _decode_sn(value): None for None and for the empty string; the decoded
\* text of a base64 serial; the value itself when the decoding fails
decode_sn(value) ==
    IF ~Truthy(value) THEN Null
    ELSE IF b64decode(value[2])[1] = "raise" THEN value
    ELSE b64decode(value[2])

\* the serials the helper is given: base64 of a serial, plain serials, a
\* serial with a wrong padding, None and the empty string
SerialValues ==
    {Null, Text(""), Text("U05fVEVTVA=="), Text("SN_PLAIN"), Text("SN_TEST"),
     Text("SEozMVpEMUFaSDVH"), Text("U04="), Text("UA=="), Text("HJ31ZD1AZH5G"),
     Text("TEST"), Text("U05fVEVTVA="), Text("SN-1"), Text("ABCDE"), Text("===="),
     Text("R0-x"), Text("SN 12345")}

\* the Ecoflow of the unit tests
InitHelpers ==
    /\ sn = "SN_TEST"
    /\ ecoflow_variant = "default"
    /\ sn_inverter = ""
    /\ sensor_config = <<"None">>
    /\ config_file = <<"missing">>
    /\ datapointfile = DatapointFile
    /\ role = ""
    /\ response = Obj(<<>>)
    /\ server = Reply(response)
    /\ sensors = EmptyDict
    /\ emitted = <<>>
    /\ ret = NoCall
    /\ op = <<"__init__">>
    /\ calls = 0
    /\ first = NoCall
    /\ hass = NoEntry
    /\ flow = NoFlow

\* a helper was called with args and returned value
HelperStep(name, args, value) ==
    /\ op' = <<name>> \o args
    /\ ret' = <<"return", value>>
    /\ UNCHANGED <<sn, hass, flow, ecoflow_variant, sn_inverter, sensor_config, config_file, datapointfile,
                   role, server, response, sensors, emitted, calls, first>>

\* eco._is_matching_report(key, report)
IsMatchingReport ==
    \E key \in CandidateKeys, report \in Targets :
       HelperStep("_is_matching_report", <<key, report>>,
                  is_matching_report(key, report))

\* eco._decode_sn(value)
DecodeSn ==
    \E value \in SerialValues :
       HelperStep("_decode_sn", <<value>>, decode_sn(value))

\* utils.SensorMetaHelper.get_unit: the suffixes, then the keywords anywhere
\* in the lowered key, then the suffixes of the regular expression
suffix_mapping ==
    unit_mapping \o << <<"current", "A">>, <<"voltage", "V">> >>

keyword_mapping ==
    << <<"generation", "kWh">>, <<"capacity", "Ah">>, <<"temperature", "°C">>,
       <<"temp", "°C">>, <<"power", "W">>, <<"energy", "Wh">>, <<"soc", "%">>,
       <<"soh", "%">>, <<"voltage", "V">>, <<"current", "A">> >>

regex_mapping ==
    << <<"pwr", "W">>, <<"amp", "A">>, <<"soc", "%">>, <<"soh", "%">>,
       <<"vol", "V">>, <<"watth", "Wh">>, <<"energy", "Wh">>, <<"temp", "°C">>,
       <<"temperature", "°C">>, <<"current", "A">>, <<"voltage", "V">> >>

\* the value of the first of the entries hits of the mapping, or None
FirstOf(mapping, hits) ==
    IF hits = {} THEN "None"
    ELSE mapping[CHOOSE i \in hits : \A j \in hits : i <= j][2]

\* the entries of the mapping the key ends with, and those it contains
Ending(mapping, key) == {i \in 1..Len(mapping) : EndsWith(key, mapping[i][1])}
Holding(mapping, key) == {i \in 1..Len(mapping) : Contains(key, mapping[i][1])}

utils_get_unit(key) ==
    LET key_lower == Lower(key)
        by_suffix == FirstOf(suffix_mapping, Ending(suffix_mapping, key_lower))
        by_keyword == FirstOf(keyword_mapping, Holding(keyword_mapping, key_lower))
    IN IF by_suffix # "None" THEN by_suffix
       ELSE IF by_keyword # "None" THEN by_keyword
       ELSE FirstOf(regex_mapping, Ending(regex_mapping, key_lower))

\* utils.SensorMetaHelper.get_description and get_special_icon: the same
\* tables as in ecoflow.py
utils_get_description(key) == get_description(key)
utils_get_special_icon(key) == get_special_icon(key)

\* the keys the inference is asked about: keys of the tables, keys that only
\* look like them, and keys of no table
MetaKeys ==
    {"bpPwr", "bpSoc", "bpAmp", "bpCycles", "mpptPwr", "online", "sysGridPwr",
     "pv1Pwr", "pv3InputVolt", "Pv1Pos", "totalGeneration", "bpCapacity",
     "bpTemperatureMax", "pwrMode", "evMode", "devSn", "BPPWR", "x", "",
     "tankVolume", "emsWorkState"}

\* SensorMetaHelper.get_unit(key), get_description(key), get_special_icon(key)
\* of ecoflow.py and then of utils.py
GetMeta ==
    \E key \in MetaKeys :
       HelperStep("SensorMetaHelper", <<key>>,
                  <<get_unit(key), get_description(key), get_special_icon(key),
                    utils_get_unit(key), utils_get_description(key),
                    utils_get_special_icon(key)>>)

\* _get_nested_value(payload, path): the value reached by following the keys
\* of the path, None when a key is missing or a value on the way is no dict
RECURSIVE get_nested_value(_, _)
get_nested_value(payload, path) ==
    IF path = <<>> THEN payload
    ELSE IF ~IsDict(payload) \/ ~HasKey(payload, Head(path)) THEN Null
    ELSE get_nested_value(Get(payload, Head(path)), Tail(path))

\* a resolution that falls back to the outer key whenever the payload gives
\* no string
BoxSnOrFallback(payload, schema, fallback_sn) ==
    IF schema.sn_path[1] = "None" THEN Text(fallback_sn)
    ELSE IF ~IsStr(get_nested_value(payload, schema.sn_path[2]))
    THEN Text(fallback_sn)
    ELSE decode_sn(get_nested_value(payload, schema.sn_path[2]))

\* _extract_box_sn(payload, schema, fallback_sn): the outer key when the
\* schema has no sn_path; else the decoded value at the path, None when that
\* value is no string
extract_box_sn(payload, schema, fallback_sn) ==
    IF schema.sn_path[1] = "None" THEN Text(fallback_sn)
    ELSE IF ~IsStr(get_nested_value(payload, schema.sn_path[2])) THEN Null
    ELSE decode_sn(get_nested_value(payload, schema.sn_path[2]))

\* the sn_path of the schemas: those of BOX_SCHEMAS, those of the unit tests,
\* and none
SnPaths ==
    {<<"None">>} \cup
    {<<"path", p>> : p \in {<<"bpSn">>, <<"devInfo", "devSn">>, <<"evSn">>,
                            <<"info", "sn">>, <<"sn">>}}

\* payloads of sub-devices: the serial encoded, plain, empty, null, a number,
\* a dict, missing
BoxPayloads ==
    {Obj(<< <<"info", Obj(<< <<"sn", Text("U05fVEVTVA==")>> >>)>> >>),
     Obj(<<>>),
     Obj(<< <<"sn", Num(123)>> >>),
     Obj(<< <<"sn", Text("SN_PLAIN")>>, <<"info", Text("R0-x")>> >>),
     Obj(<< <<"bpSn", Text("SEozMVpEMUFaSDVH")>>, <<"bpPwr", Num(5)>> >>),
     Obj(<< <<"bpSn", Text("HJ31ZD1AZH5G")>> >>),
     Obj(<< <<"bpSn", Null>>, <<"evSn", Text("")>> >>),
     Obj(<< <<"devInfo", Obj(<< <<"devSn", Text("U04=")>> >>)>>,
            <<"evSn", Obj(<< <<"sn", Text("SN-1")>> >>)>> >>)}

\* eco._extract_box_sn(payload, schema, fallback_sn)
ExtractBoxSn ==
    \E payload \in BoxPayloads, sn_path \in SnPaths,
       fallback_sn \in {"FALLBACK", "SN_FALLBACK"} :
       HelperStep("_extract_box_sn", <<payload, sn_path, fallback_sn>>,
                  extract_box_sn(payload, [sn_path |-> sn_path], fallback_sn))

NextHelpers == IsMatchingReport \/ DecodeSn \/ GetMeta \/ ExtractBoxSn

SpecHelpers == InitHelpers /\ [][NextHelpers]_vars

----------------------------------------------------------------------------
(* sensor.py: the sensor entities of a config entry and their update cycle *)

MaxCycles == 2

\* s.strip() of blanks
RECURSIVE Strip(_)
Strip(s) ==
    IF Len(s) > 0 /\ SubSeq(s, 1, 1) = " " THEN Strip(SubSeq(s, 2, Len(s)))
    ELSE IF Len(s) > 0 /\ SubSeq(s, Len(s), Len(s)) = " "
    THEN Strip(SubSeq(s, 1, Len(s) - 1))
    ELSE s

\* str(v).strip() of the value of an endpoint
StrStrip(v) ==
    CASE v[1] = "num" -> ToString(v[2])
      [] v[1] = "text" -> Strip(v[2])
      [] v[1] = "null" -> "None"
      [] OTHER -> ToString(v)

\* PowerOceanSensor(ecoflow, endpoint)
PowerOceanSensor(endpoint) ==
    [unique_id |-> endpoint.internal_unique_id, name |-> endpoint.friendly_name,
     state |-> endpoint.value, unit |-> endpoint.unit]

\* PowerOceanSensor.async_update(sensor_data) for an endpoint sensor_data (the
\* cycle calls it only with an endpoint it found, never with None)
async_update(sensor, sensor_data) ==
    [sensor EXCEPT !.state = sensor_data.value]

\* a cycle that takes a missing endpoint for a cleared value
ClearWhenAbsent(sensor, full_data, registry) ==
    IF registry[sensor.unique_id] # "enabled" THEN sensor
    ELSE IF sensor.unique_id \notin DOMAIN full_data
    THEN [sensor EXCEPT !.state = Null]
    ELSE async_update(sensor, full_data[sensor.unique_id])

\* the body of the loop of async_update_data for one sensor: a sensor that is
\* in the registry and enabled, has data in this cycle and whose state reads
\* differently from the new value is updated
UpdateOne(sensor, full_data, registry) ==
    IF registry[sensor.unique_id] # "enabled" THEN sensor
    ELSE IF sensor.unique_id \notin DOMAIN full_data THEN sensor
    ELSE IF StrStrip(sensor.state) # StrStrip(full_data[sensor.unique_id].value)
    THEN async_update(sensor, full_data[sensor.unique_id])
    ELSE sensor

\* the sensors async_setup_entry creates: one per item of data, in order
RegisterAll(data, order) ==
    LET firsts == SelectSeq([j \in 1..Len(order) |-> j], LAMBDA j :
                     /\ order[j].ep.internal_unique_id \in DOMAIN data
                     /\ \A k \in 1..(j - 1) :
                           order[k].ep.internal_unique_id
                             # order[j].ep.internal_unique_id)
    IN [i \in 1..Len(firsts) |->
          PowerOceanSensor(data[order[firsts[i]].ep.internal_unique_id])]

\* the entity registry: every sensor enabled, or one of them disabled or not
\* in the registry
Registries(ids) ==
    {[id \in ids |-> "enabled"]}
    \cup {[id \in ids |-> IF id = off THEN kind ELSE "enabled"] :
            off \in ids, kind \in {"disabled", "missing"}}

\* what the cloud answers in a cycle: the field of the default report and the
\* field of the battery report, each present or not, or an error
UpdateReplies ==
    {Reply(Response(Obj(top \o q))) :
        top \in {<<>>, << <<"bpPwr", Num(5)>> >>, << <<"bpPwr", Num(6)>> >>,
                 << <<"bpPwr", Text("5 ")>> >>},
        q \in {<<>>, << Quota(Body(<<Num(3)>>, <<>>)) >>}}
    \cup {[ok |-> FALSE, text |-> Text("Bad Gateway")]}

\* the engine of a config entry, its schema loaded
InitUpdate ==
    /\ sn = OwnSerial
    /\ ecoflow_variant = "83"
    /\ sn_inverter = ""
    /\ config_file = <<"reports",
                       << ReportCfg("data", TRUE, << SensorSpec("bpPwr", FALSE, "") >>),
                          ReportCfg(Report, TRUE, << SensorSpec("bpPwr", FALSE, "") >>) >> >>
    /\ sensor_config = load_sensor_config(config_file)
    /\ datapointfile = DatapointFile
    /\ role = ""
    /\ server = Reply(Response(Obj(<<>>)))
    /\ response = Obj(<<>>)
    /\ sensors = EmptyDict
    /\ emitted = <<>>
    /\ ret = NoCall
    /\ op = <<"__init__">>
    /\ calls = 0
    /\ first = NoCall
    /\ hass = NoEntry
    /\ flow = NoFlow

\* the serial the engine holds after a fetch
SerialAfterFetch(reply) ==
    IF get_json_response(reply) = Returned
       /\ flatten_json(ResponseData(json_loads(reply.text))) = Returned
    THEN sn ELSE sn_inverter

\* async_setup_entry: the device is checked, the data fetched once and one
\* sensor registered per endpoint; without a device or without data nothing
\* is registered, and an error of the fetch comes out of the call
AsyncSetupEntry ==
    /\ ~hass.setup
    /\ \E device_check \in BOOLEAN, reply \in UpdateReplies :
          LET r == fetch_data(sensor_config, reply, sn) IN
          IF ~device_check
          THEN /\ ret' = Returned
               /\ op' = <<"async_setup_entry", NoCall>>
               /\ UNCHANGED <<server, sn_inverter, sensors, emitted, hass>>
          ELSE /\ server' = reply
               /\ sn_inverter' = SerialAfterFetch(reply)
               /\ sensors' = r.sensors
               /\ emitted' = r.emitted
               /\ ret' = r.status
               /\ op' = <<"async_setup_entry", r.status>>
               /\ IF r.status = Returned /\ DOMAIN r.sensors # {}
                  THEN \E registry \in Registries(DOMAIN r.sensors) :
                          hass' = [setup |-> TRUE,
                                   device_specific_sensors |->
                                       RegisterAll(r.sensors, r.emitted),
                                   registry |-> registry]
                  ELSE hass' = hass
    /\ UNCHANGED <<sn, flow, ecoflow_variant, sensor_config, config_file, datapointfile,
                   role, response, calls, first>>

\* async_update_data(now): the data is fetched once; an error of the fetch
\* ends the cycle, otherwise every registered sensor is looked at
AsyncUpdateData ==
    /\ hass.setup
    /\ calls < MaxCycles
    /\ \E reply \in UpdateReplies :
          LET r == fetch_data(sensor_config, reply, sn) IN
          /\ server' = reply
          /\ sn_inverter' = SerialAfterFetch(reply)
          /\ sensors' = r.sensors
          /\ emitted' = r.emitted
          /\ ret' = Returned
          /\ op' = <<"async_update_data", r.status>>
          /\ hass' = (IF r.status # Returned THEN hass
                      ELSE [hass EXCEPT !.device_specific_sensors =
                              [i \in 1..Len(@) |->
                                 UpdateOne(@[i], r.sensors, hass.registry)]])
    /\ calls' = calls + 1
    /\ UNCHANGED <<sn, flow, ecoflow_variant, sensor_config, config_file, datapointfile,
                   role, response, first>>

NextUpdate == AsyncSetupEntry \/ AsyncUpdateData

SpecUpdate == InitUpdate /\ [][NextUpdate]_vars

----------------------------------------------------------------------------
(* config_flow.py: the config flow of the integration *)

max_length == 255

\* requests.post raised a RequestException: there is no reply
NoReply == [ok |-> FALSE, text |-> Null]

\* authorize(): the login reply is parsed by get_json_response; a KeyError
\* becomes FailedToExtractKeyError, a RequestException IntegrationError, a
\* data block without a token AuthenticationFailedError (the one of ecoflow.py)
authorize(reply) ==
    IF reply = NoReply THEN Raised("IntegrationError")
    ELSE IF get_json_response(reply) = Raised("KeyError")
    THEN Raised("FailedToExtractKeyError")
    ELSE IF get_json_response(reply) # Returned THEN get_json_response(reply)
    ELSE LET data_block == Get(json_loads(reply.text), "data") IN
         IF ~IsDict(data_block) \/ ~HasKey(data_block, "token")
         THEN Raised("AuthenticationFailedError")
         ELSE Returned

\* get_device() of the engine with the serial serial
get_device(serial) ==
    [product |-> "PowerOcean", vendor |-> "Ecoflow", serial |-> serial,
     name |-> "PowerOcean", features |-> "Photovoltaik"]

\* a call of _LOGGER in config_flow.py: the module neither imports nor
\* defines the name _LOGGER
LoggerCall == Raised("NameError")

\* validate_input_for_device(hass, data): the device, or the exception; the
\* AuthenticationFailedError the function catches is the class of
\* config_flow.py, which authorize never raises
validate_input_for_device(reply, data) ==
    LET authorized == authorize(reply) IN
    IF authorized = Returned THEN <<"return", get_device(data.device_id)>>
    ELSE IF authorized = Raised("IntegrationError")
    THEN (IF LoggerCall = Returned THEN Raised("CannotConnectError") ELSE LoggerCall)
    ELSE authorized

\* the characters re keeps for [\w\s\-]
WordChars == "ABCDEFGHIJKLMNOPQRSTUVWXYZabcdefghijklmnopqrstuvwxyz0123456789_"

\* re.sub(r"[^\w\s\-]", "", s)
RECURSIVE KeepAllowed(_)
KeepAllowed(s) ==
    IF Len(s) = 0 THEN ""
    ELSE (IF InStr(SubSeq(s, 1, 1), WordChars) \/ SubSeq(s, 1, 1) \in {" ", "-"}
          THEN SubSeq(s, 1, 1) ELSE "")
         \o KeepAllowed(SubSeq(s, 2, Len(s)))

\* re.sub(r"\s+", " ", s)
RECURSIVE CollapseBlanks(_)
CollapseBlanks(s) ==
    IF Len(s) < 2 THEN s
    ELSE IF SubSeq(s, 1, 2) = "  " THEN CollapseBlanks(SubSeq(s, 2, Len(s)))
    ELSE SubSeq(s, 1, 1) \o CollapseBlanks(SubSeq(s, 2, Len(s)))

\* a flow that takes the name as it was typed
Unsanitized(device_name, fall_back, limit) == device_name

\* sanitize_device_name(device_name, fall_back, max_length)
sanitize_device_name(device_name, fall_back, limit) ==
    LET collapsed == CollapseBlanks(KeepAllowed(Strip(device_name)))
        sanitized == SubSeq(collapsed, 1, IF Len(collapsed) < limit
                                          THEN Len(collapsed) ELSE limit)
    IN IF sanitized = ""
       THEN SubSeq(fall_back, 1, IF Len(fall_back) < limit
                                 THEN Len(fall_back) ELSE limit)
       ELSE sanitized

\* the names, fallbacks and lengths the sanitizer is called with
DeviceNames ==
    {"My PowerOcean", "  My  Power!Ocean ", "!!!", "Keller_1-A", "! Keller",
     "Keller !", "! !", "ab cd", "a", ""}

FallBacks == {"PowerOcean", " PO ", "R2-D2!", ""}

MaxLengths == {3, 6, max_length}

InitNames ==
    /\ sn = ""
    /\ ecoflow_variant = ""
    /\ sn_inverter = ""
    /\ sensor_config = <<"None">>
    /\ config_file = <<"missing">>
    /\ datapointfile = DatapointFile
    /\ role = ""
    /\ server = [ok |-> FALSE, text |-> Text("")]
    /\ response = Obj(<<>>)
    /\ sensors = EmptyDict
    /\ emitted = <<>>
    /\ ret = NoCall
    /\ op = <<"__init__">>
    /\ calls = 0
    /\ first = NoCall
    /\ hass = [setup |-> FALSE, device_specific_sensors |-> <<>>, registry |-> <<>>]
    /\ flow = [cur_step |-> "", result |-> <<>>]

\* a call of the sanitizer and what it returned
NameStep(device_name, fall_back, limit) ==
    /\ op' = <<"sanitize_device_name", device_name, fall_back, limit>>
    /\ ret' = <<"return", sanitize_device_name(device_name, fall_back, limit)>>
    /\ UNCHANGED <<sn, ecoflow_variant, sn_inverter, sensor_config, config_file,
                   datapointfile, role, server, response, sensors, emitted, calls,
                   first, hass, flow>>

\* the config flow and the options flow sanitize the name that was typed
SanitizeName ==
    \E device_name \in DeviceNames, fall_back \in FallBacks, limit \in MaxLengths :
       NameStep(device_name, fall_back, limit)

\* a stored name is shown in the form again and sanitized once more
SanitizeAgain ==
    /\ op[1] = "sanitize_device_name"
    /\ NameStep(ret[2], op[3], op[4])

NextNames == SanitizeName \/ SanitizeAgain

SpecNames == InitNames /\ [][NextNames]_vars

\* the results of a step: a form with its errors, a created entry, or the
\* exception that comes out of the step
ShowForm(step_id, errors) ==
    [type |-> "form", step_id |-> step_id, errors |-> errors, title |-> "",
     data |-> <<>>]
CreateEntry(title, data) ==
    [type |-> "create_entry", step_id |-> "", errors |-> "", title |-> title,
     data |-> <<data>>]
StepRaised(exc) ==
    [type |-> "raise", step_id |-> "", errors |-> exc, title |-> "", data |-> <<>>]

\* the flow after a step that returned result: a form makes its step the
\* current one, an entry ends the flow, an exception leaves the flow where
\* it is
After(f, result) ==
    [f EXCEPT !.result = <<result>>,
              !.cur_step = IF result.type = "form" THEN result.step_id
                           ELSE IF result.type = "create_entry" THEN "done"
                           ELSE @,
              !.entries = IF result.type = "create_entry" THEN @ \o <<result>>
                          ELSE @]

\* async_step_device_options(user_input), None being <<>>
async_step_device_options(f, user_input) ==
    IF user_input = <<>> THEN After(f, ShowForm("device_options", ""))
    ELSE LET options == [user_input[1] EXCEPT !.friendly_name =
                            sanitize_device_name(@, f.device_info[1].name, max_length)]
         IN After(f, CreateEntry(options.friendly_name,
                                 [user_input |-> f.user_input_from_step_user[1],
                                  device_info |-> f.device_info[1],
                                  options |-> options]))

\* async_step_user(user_input), None being <<>>; reply is what the login
\* endpoint answers
async_step_user(f, user_input, reply) ==
    IF user_input = <<>> THEN After(f, ShowForm("user", ""))
    ELSE LET device == validate_input_for_device(reply, user_input[1]) IN
         IF device = Raised("CannotConnectError")
         THEN After(f, ShowForm("user", "cannot_connect"))
         ELSE IF device = Raised("InvalidAuthError")
         THEN After(f, ShowForm("user", "invalid_auth"))
         ELSE IF device[1] = "raise"
         THEN (IF LoggerCall = Returned THEN After(f, ShowForm("user", "unknown"))
               ELSE After(f, StepRaised(LoggerCall[2])))
         ELSE async_step_device_options(
                 [f EXCEPT !.unique_id = device[2].product \o "_" \o device[2].serial,
                           !.user_input_from_step_user = user_input,
                           !.device_info = <<device[2]>>],
                 <<>>)

\* what the user types into the user form and into the device options form
UserInputs ==
    {[device_id |-> d, email |-> "userd123@aol.com",
      password |-> "passwortd123@aol.com", model_id |-> m] :
        d \in {"Device123", OwnSerial}, m \in Variants}

OptionInputs ==
    {[friendly_name |-> n, scan_interval |-> t] :
        n \in {"My PowerOcean", "  My  Power!Ocean ", "!!!", "Keller_1-A",
                 "! Keller", ""},
        t \in {10, 15, 60}}

\* what the login endpoint answers: a token, a data block without token, no
\* data block, a refusal, an error page, and no answer at all
LoginReplies ==
    {Reply(Response(Obj(<< <<"token", Text("t0k3n")>> >>))),
     Reply(Response(Obj(<<>>))),
     Reply(Obj(<< <<"message", Text("success")>> >>)),
     Reply(Obj(<< <<"message", Text("login failed")>>, <<"data", Obj(<<>>)>> >>)),
     [ok |-> FALSE, text |-> Text("Bad Gateway")],
     [ok |-> TRUE, text |-> Text("<html>")],
     NoReply}

\* Home Assistant before a flow is started; no engine is constructed yet
InitFlow ==
    /\ sn = ""
    /\ ecoflow_variant = ""
    /\ sn_inverter = ""
    /\ sensor_config = <<"None">>
    /\ config_file = <<"missing">>
    /\ datapointfile = DatapointFile
    /\ role = ""
    /\ server = NoReply
    /\ response = Obj(<<>>)
    /\ sensors = EmptyDict
    /\ emitted = <<>>
    /\ ret = NoCall
    /\ op = <<"__init__">>
    /\ calls = 0
    /\ first = NoCall
    /\ hass = NoEntry
    /\ flow = NoFlow

\* a step of the flow manager: the step ran with these arguments
FlowStep(name, args, f) ==
    /\ flow' = f
    /\ op' = <<name>> \o args
    /\ ret' = (IF f.result[1].type = "raise" THEN Raised(f.result[1].errors)
               ELSE Returned)
    /\ UNCHANGED <<sn_inverter, sensor_config, config_file, datapointfile, role,
                   response, sensors, emitted, calls, first, hass>>

\* flow.async_init(DOMAIN, context={"source": "user"}): the user step without
\* input
FlowInit ==
    /\ flow.cur_step = ""
    /\ FlowStep("async_step_user", << <<>> >>, async_step_user(flow, <<>>, server))
    /\ UNCHANGED <<sn, ecoflow_variant, server>>

\* flow.async_configure(flow_id, user_input) while the user form is shown:
\* the engine is constructed from the input and asked to authorize
StepUser ==
    /\ flow.cur_step = "user"
    /\ \E user_input \in UserInputs, reply \in LoginReplies :
          /\ sn' = user_input.device_id
          /\ ecoflow_variant' = user_input.model_id
          /\ server' = reply
          /\ FlowStep("async_step_user", <<user_input>>,
                      async_step_user(flow, <<user_input>>, reply))

\* flow.async_configure(flow_id, user_input) while the device options form is
\* shown
StepDeviceOptions ==
    /\ flow.cur_step = "device_options"
    /\ \E user_input \in OptionInputs :
          FlowStep("async_step_device_options", <<user_input>>,
                   async_step_device_options(flow, <<user_input>>))
    /\ UNCHANGED <<sn, ecoflow_variant, server>>

NextFlow == FlowInit \/ StepUser \/ StepDeviceOptions

SpecFlow == InitFlow /\ [][NextFlow]_vars

----------------------------------------------------------------------------
(* __init__.py and sensor.py: a config entry is set up, unloaded, set up   *)
(* again, and the update timers of the sensor platform fire                *)

MaxSetups == 2
MaxFires == 2

\* the options a config entry can hold in entry.data["options"]: the scan
\* interval of the device options form, or none in a legacy entry
EntryOptions ==
    {Obj(<< <<"friendly_name", Text("PowerOcean")>>, <<"scan_interval", Num(t)>> >>) :
        t \in {10, 15, 60}}
    \cup {Obj(<<>>)}

\* what the cloud answers to a fetch of the entry's engine
EntryReplies ==
    {Reply(Response(Obj(<< <<"bpPwr", Num(v)>> >>))) : v \in {5, 6}}
    \cup {[ok |-> FALSE, text |-> Text("Bad Gateway")]}

\* what the login endpoint answers when the entry is set up
EntryLogins ==
    {Reply(Response(Obj(<< <<"token", Text("t0k3n")>> >>))),
     Reply(Response(Obj(<<>>))),
     NoReply}

\* options with the defaults async_setup_entry patches into a legacy entry
Patched(options) ==
    LET with_scan == IF HasKey(options, "scan_interval") THEN options
                     ELSE Obj(options[2] \o << <<"scan_interval", Num(10)>> >>)
    IN IF HasKey(with_scan, "friendly_name") THEN with_scan
       ELSE Obj(with_scan[2] \o << <<"friendly_name", Text("PowerOcean")>> >>)

\* timedelta(seconds=config_entry.options.get("polling_interval", 60))
polling_interval(entry) ==
    IF HasKey(entry.options, "polling_interval")
    THEN Get(entry.options, "polling_interval")[2]
    ELSE 60

\* Home Assistant with one config entry of the integration that is not set
\* up: hass.data[DOMAIN] holds no engine, and the key
\* "device_specific_sensors" is there or not
HassOf(options, has_list) ==
    [data |-> FALSE, has_list |-> has_list, listed |-> FALSE,
     device_specific_sensors |-> <<>>, timers |-> <<>>,
     entry |-> [data_options |-> options, options |-> Obj(<<>>)],
     state |-> "not_loaded", setups |-> 0, last_unloaded |-> 0]

InitEntry ==
    /\ sn = OwnSerial
    /\ ecoflow_variant = "83"
    /\ sn_inverter = ""
    /\ config_file = <<"reports",
                       << ReportCfg("data", TRUE, << SensorSpec("bpPwr", FALSE, "") >>) >> >>
    /\ sensor_config = load_sensor_config(config_file)
    /\ datapointfile = DatapointFile
    /\ role = ""
    /\ server = Reply(Response(Obj(<<>>)))
    /\ response = Obj(<<>>)
    /\ sensors = EmptyDict
    /\ emitted = <<>>
    /\ ret = NoCall
    /\ op = <<"__init__">>
    /\ calls = 0
    /\ first = NoCall
    /\ hass \in {HassOf(options, has_list) :
                    options \in EntryOptions, has_list \in BOOLEAN}
    /\ flow = NoFlow

\* sensor.async_setup_entry as the forwarding runs it, on Home Assistant h
\* whose sensor list exists: without a device, with a fetch that fails or
\* with no data nothing is registered and no timer started; otherwise the
\* sensors are listed under the device and the timer is started
PlatformSetup(h, device_check, r) ==
    IF ~device_check \/ r.status # Returned \/ DOMAIN r.sensors = {} \/ ~h.has_list
    THEN h
    ELSE [h EXCEPT !.listed = TRUE,
                   !.device_specific_sensors = RegisterAll(r.sensors, r.emitted),
                   !.timers = @ \o << [period |-> polling_interval(h.entry),
                                       setup |-> h.setups] >>]

\* __init__.async_setup_entry: the options are patched, the engine is
\* authorized and stored, the platforms are forwarded to and the device is
\* registered; every exception ends the call with False
EntrySetup ==
    /\ hass.state # "loaded"
    /\ hass.setups < MaxSetups
    /\ \E login \in EntryLogins, forward \in {"ok", "raise"},
          device \in {"ok", "raise"}, device_check \in BOOLEAN,
          reply \in EntryReplies :
          LET patched == Patched(hass.entry.data_options)
              started == [hass EXCEPT
                            !.setups = @ + 1,
                            !.entry = IF patched # hass.entry.data_options
                                      THEN [data_options |-> patched,
                                            options |-> patched]
                                      ELSE @]
              stored == [started EXCEPT !.data = TRUE]
              r == fetch_data(sensor_config, reply, sn)
              fetched == forward = "ok" /\ device_check
          IN /\ op' = <<"async_setup_entry", authorize(login), forward, device>>
             /\ IF authorize(login) # Returned
                THEN /\ hass' = [started EXCEPT !.state = "setup_error"]
                     /\ ret' = <<"return", FALSE>>
                ELSE IF forward = "raise"
                THEN /\ hass' = [stored EXCEPT !.state = "setup_error"]
                     /\ ret' = <<"return", FALSE>>
                ELSE IF device = "raise"
                THEN /\ hass' = [PlatformSetup(stored, device_check, r)
                                    EXCEPT !.state = "setup_error"]
                     /\ ret' = <<"return", FALSE>>
                ELSE /\ hass' = [PlatformSetup(stored, device_check, r)
                                    EXCEPT !.state = "loaded"]
                     /\ ret' = <<"return", TRUE>>
             /\ IF authorize(login) = Returned /\ fetched
                THEN /\ server' = reply
                     /\ sn_inverter' = SerialAfterFetch(reply)
                     /\ sensors' = r.sensors
                     /\ emitted' = r.emitted
                ELSE UNCHANGED <<server, sn_inverter, sensors, emitted>>
    /\ UNCHANGED <<sn, flow, ecoflow_variant, sensor_config, config_file, datapointfile,
                   role, response, calls, first>>

\* __init__.async_unload_entry: when the platforms are unloaded the engine is
\* dropped from hass.data and the device from the sensor lists
EntryUnload ==
    /\ hass.state = "loaded"
    /\ \E unload_ok \in BOOLEAN :
          /\ op' = <<"async_unload_entry", unload_ok>>
          /\ ret' = <<"return", unload_ok>>
          /\ hass' = (IF ~unload_ok THEN [hass EXCEPT !.state = "failed_unload"]
                      ELSE [hass EXCEPT !.data = FALSE,
                                        !.listed = FALSE,
                                        !.device_specific_sensors = <<>>,
                                        !.state = "not_loaded",
                                        !.last_unloaded = hass.setups])
    /\ UNCHANGED <<sn, flow, ecoflow_variant, sn_inverter, sensor_config, config_file,
                   datapointfile, role, server, response, sensors, emitted, calls,
                   first>>

\* PowerOceanOptionsFlowHandler.async_step_init with an input: the options of
\* the entry become what was typed
EntryOptionsFlow ==
    /\ \E t \in {10, 30} :
          /\ hass.entry.options
                # Obj(<< <<"friendly_name", Text("PowerOcean")>>,
                         <<"scan_interval", Num(t)>> >>)
          /\ hass' = [hass EXCEPT !.entry.options =
                        Obj(<< <<"friendly_name", Text("PowerOcean")>>,
                               <<"scan_interval", Num(t)>> >>)]
          /\ op' = <<"async_step_init", t>>
          /\ ret' = Returned
    /\ UNCHANGED <<sn, flow, ecoflow_variant, sn_inverter, sensor_config, config_file,
                   datapointfile, role, server, response, sensors, emitted, calls,
                   first>>

\* async_update_data(now) of the timer-th timer: nothing happens while the
\* device is not in the sensor lists; else the data is fetched and the
\* listed sensors are looked at
TimerFires ==
    /\ calls < MaxFires
    /\ \E timer \in 1..Len(hass.timers), reply \in EntryReplies :
          LET r == fetch_data(sensor_config, reply, sn)
              registry == [id \in {hass.device_specific_sensors[i].unique_id :
                                      i \in 1..Len(hass.device_specific_sensors)}
                             |-> "enabled"]
          IN IF ~(hass.has_list /\ hass.listed)
             THEN /\ op' = <<"async_update_data", timer, "skipped">>
                  /\ ret' = <<"return", FALSE>>
                  /\ UNCHANGED <<hass, server, sn_inverter, sensors, emitted>>
             ELSE /\ op' = <<"async_update_data", timer, "fetched">>
                  /\ ret' = Returned
                  /\ server' = reply
                  /\ sn_inverter' = SerialAfterFetch(reply)
                  /\ sensors' = r.sensors
                  /\ emitted' = r.emitted
                  /\ hass' = (IF r.status # Returned THEN hass
                              ELSE [hass EXCEPT !.device_specific_sensors =
                                      [i \in 1..Len(@) |->
                                         UpdateOne(@[i], r.sensors, registry)]])
    /\ calls' = calls + 1
    /\ UNCHANGED <<sn, flow, ecoflow_variant, sensor_config, config_file, datapointfile,
                   role, response, first>>

NextEntry == EntrySetup \/ EntryUnload \/ EntryOptionsFlow \/ TimerFires

SpecEntry == InitEntry /\ [][NextEntry]_vars

----------------------------------------------------------------------------
(* Properties of the generic field-path extraction *)

\* an extraction call has just returned a mapping read from a data object
Extracted ==
    /\ op[1] \in {"_get_sensors", "fetch_data"}
    /\ ret = Returned
    /\ IsDict(op[2])
    /\ sensor_config[1] = "list"

Items == WorkItems(sensor_config[2])
ItemReport(i) == Items[i][1]
ItemSpec(i) == Items[i][2]

\* the values the path of the i-th sensor matches in the data object read, in
\* discovery order
ItemMatches(i) == Find(Base(ItemReport(i)) \o "." \o ItemSpec(i).field, op[2])

\* the unique_id of the i-th sensor's endpoint with instance number k
InstanceId(i, k) ==
    sn \o "_" \o ItemReport(i) \o "_" \o FieldKey(ItemSpec(i).field)
       \o "_" \o ItemSpec(i).instance_name \o ToString(k)

\* the positions in emitted of the endpoints the i-th sensor produced
ProducedBy(i) == {j \in 1..Len(emitted) : emitted[j].item = i}

\* no sensor before the i-th produced the unique_id
FirstToProduce(i, uid) ==
    \A j \in 1..Len(emitted) :
        emitted[j].item < i => emitted[j].ep.internal_unique_id # uid

RECURSIVE NumberSum(_)
NumberSum(vs) ==
    IF vs = <<>> THEN 0
    ELSE (IF Head(vs)[1] = "num" THEN Head(vs)[2] ELSE 0) + NumberSum(Tail(vs))

C3_SameDocumentSameMapping ==
    (op[1] = "_get_sensors" /\ calls >= 2 /\ first[3] = sensor_config) =>
        /\ ret = first[1]
        /\ ret = Returned => sensors = first[2]

\* C4: when the data object holds a "parallel" object, every inverter serial
\* under it whose sub-tree holds a configured field of a report has an
\* endpoint stored that carries that inverter's serial.
C4_ParallelPerInverter ==
    (Extracted /\ HasKey(op[2], "parallel")) =>
        LET parallel == Get(op[2], "parallel") IN
        \A k \in 1..Len(Keys(parallel)) :
            \A i \in 1..Len(Items) :
                (/\ ItemReport(i) # "data"
                 /\ Find("$." \o ItemReport(i) \o "." \o ItemSpec(i).field,
                         Get(parallel, Keys(parallel)[k])) # <<>>)
                => \E uid \in DOMAIN sensors :
                      sensors[uid].serial = Keys(parallel)[k]

\* the reply of the server is a success body
SuccessBody ==
    /\ server.ok
    /\ server.text[1] = "json"
    /\ server.text[2][1] = "obj"
    /\ HasKey(server.text[2], "message")
    /\ Get(server.text[2], "message") = Text("success")

\* a string that holds the JSON text of an object
JsonObjectText(d) == d[1] = "json" /\ d[2][1] = "obj"

\* C5 (as stated): when the response has no usable "data" object (the key is
\* missing or its value is not a mapping), the call raises an error instead
\* of returning a mapping.
C5_NoDataRaises ==
    /\ (op[1] = "_get_sensors" /\ ~IsDict(ResponseData(response))) =>
          ret[1] = "raise"
    /\ (op[1] = "fetch_data" /\ SuccessBody
          /\ ~IsDict(ResponseData(server.text[2]))) =>
          ret[1] = "raise"

\* C5 (amended): with no usable "data" object, fetch_data raises (KeyError
\* when the key is missing, AttributeError when the value is not a mapping)
\* and stores no endpoint, while _get_sensors called on such a response
\* returns an empty mapping without raising, unless the value is a string
\* holding the JSON text of an object, which it decodes and reads.
C5_NoDataFetchRaisesGetSensorsEmpty ==
    /\ (op[1] = "fetch_data" /\ SuccessBody
          /\ ~IsDict(ResponseData(server.text[2]))) =>
          /\ ret = Raised(IF HasKey(server.text[2], "data")
                          THEN "AttributeError" ELSE "KeyError")
          /\ sensors = EmptyDict
    /\ (op[1] = "_get_sensors" /\ ~IsDict(ResponseData(response))) =>
          IF JsonObjectText(ResponseData(response))
          THEN op[2] = ResponseData(response)[2]
          ELSE ret = Returned /\ sensors = EmptyDict

\* C5 witness: _get_sensors has returned the empty mapping for a response
\* whose data is a list, with the schema loaded.
C5_Witness ==
    /\ op[1] = "_get_sensors"
    /\ ResponseData(response) = Arr(<<>>)
    /\ sensor_config[1] = "list" /\ sensor_config[2] # <<>>
    /\ ret = Returned
    /\ sensors = EmptyDict

\* C6: when the data object holds neither "quota" nor "parallel", the
\* returned mapping is empty whatever top-level fields data carries.
C6_UnknownTopologyEmpty ==
    (Extracted /\ ~HasKey(op[2], "quota") /\ ~HasKey(op[2], "parallel")) =>
        sensors = EmptyDict

\* the 1-based position of emitted[j] among the endpoints of its sensor
InstanceNo(j) ==
    Cardinality({h \in 1..j : emitted[h].item = emitted[j].item})

\* owner, report (left out for the default report), field key and instance
\* suffix joined by "_"
JoinedId(serial, report, key, suffix) ==
    serial \o (IF report = "data" THEN "" ELSE "_" \o report) \o "_" \o key \o suffix

\* C10: every endpoint the generic field-path extraction produces has the
\* unique_id made of the owning serial, the report name, the field key and
\* the instance suffix joined by "_", the report left out for the default
\* "data" report.
C10_UniqueIdFormat ==
    Extracted =>
        \A j \in 1..Len(emitted) :
            LET i == emitted[j].item
                spec == ItemSpec(i)
            IN emitted[j].ep.internal_unique_id =
                 JoinedId(emitted[j].ep.serial, ItemReport(i), FieldKey(spec.field),
                          IF spec.per_instance
                          THEN "_" \o spec.instance_name \o ToString(InstanceNo(j))
                          ELSE "")

----------------------------------------------------------------------------
(* Properties of a pass of handlers that share one output mapping *)

\* C1: within a pass, once a record is stored under a unique_id, every later
\* step leaves the value stored under that unique_id unchanged.
C1_FirstWriteWins ==
    [][\A uid \in DOMAIN sensors :
          /\ uid \in DOMAIN sensors'
          /\ sensors'[uid].value = sensors[uid].value]_vars

\* the body of the report the last handler step was run on
StepBody == Get(op[2], op[3])

\* the endpoints the last step wrote, in order
StepEndpoints ==
    LET written == SelectSeq(emitted, LAMBDA e : e.item = calls)
    IN [j \in 1..Len(written) |-> written[j].ep]

\* the EMS heartbeat handler has returned for a report that holds the array
EmsDone ==
    /\ op[1] = "_handle_ems_heartbeat_mode"
    /\ ret = Returned
    /\ HasKey(StepBody, "mpptHeartBeat")

EmsStrings == Get(Get(StepBody, "mpptHeartBeat")[2][1], "mpptPv")[2]

\* the sum of pwr over the strings, a string without pwr counting as 0
RECURSIVE PwrSum(_)
PwrSum(strings) ==
    IF strings = <<>> THEN 0
    ELSE (IF \E i \in 1..Len(Head(strings)[2]) : Head(strings)[2][i][1] = "pwr"
          THEN Get(Head(strings), "pwr")[2] ELSE 0)
         + PwrSum(Tail(strings))

TotalId == sn_inverter \o "_" \o op[3] \o "_mpptHeartBeat_mpptPv_pwrTotal"

ParallelDone ==
    /\ op[1] = "_handle_parallel_energy_stream"
    /\ ret = Returned
    /\ HasKey(StepBody, "paraEnergyStream")

StreamRecords == Get(StepBody, "paraEnergyStream")[2]

\* the (record, key) pairs of the stream in order
RECURSIVE Slots(_, _)
Slots(i, records) ==
    IF i > Len(records) THEN <<>>
    ELSE [k \in 1..Len(records[i][2]) |-> <<i, records[i][2][k][1]>>]
         \o Slots(i + 1, records)

\* the devSn a record states, "" when it states none
StatedSerial(record) ==
    IF \E k \in 1..Len(record[2]) :
          record[2][k][1] = "devSn" /\ record[2][k][2][1] = "text"
    THEN Get(record, "devSn")[2] ELSE ""

\* the tag of a record by its serial
TagOf(record) ==
    IF StatedSerial(record) = sn THEN "_master"
    ELSE IF Len(StatedSerial(record)) >= LENGTH_BATTERIE_SN THEN "_slave"
    ELSE "_all"

----------------------------------------------------------------------------
(* The role suffix of the report handlers *)

\* the step taken is a call of the standard, the EMS heartbeat or the battery
\* handler
RoleHandlers ==
    {"_handle_standard_mode", "_handle_ems_heartbeat_mode", "_handle_battery_mode"}

ModeOf(name) ==
    CASE name = "_handle_battery_mode" -> "battery"
      [] name = "_handle_ems_heartbeat_mode" -> "ems_heartbeat"
      [] OTHER -> "standard"

\* the same call with the role suffix t, on the mapping as it is before the step
WithRole(t) ==
    extract_sensors_from_report_org(op'[2], sensors, op'[3], t, ModeOf(op'[1]),
                                    datapointfile, sn, sn_inverter)

\* the fields of an endpoint other than name and friendly_name
NoNames(ep) ==
    <<ep.internal_unique_id, ep.serial, ep.value, ep.unit, ep.description, ep.icon>>

\* C11: for every report body and every two role suffixes among "", "_master"
\* and "_slave", the standard, the EMS heartbeat and the battery handler end
\* the same way and leave a mapping with the same unique_ids, each with the
\* same value (and serial, unit, description, icon); only name and
\* friendly_name differ, and they differ by the suffix.
C11_RoleChangesOnlyNames ==
    [][(op'[1] \in RoleHandlers /\ calls' = calls + 1) =>
          \A t \in DeviceRole : \A r \in {WithRole(t)} :
               /\ r.status = ret'
               /\ DOMAIN r.sensors = DOMAIN sensors'
               /\ \A id \in DOMAIN sensors' :
                     /\ NoNames(r.sensors[id]) = NoNames(sensors'[id])
                     /\ id = sensors'[id].internal_unique_id
               /\ Len(r.emitted) = Len(emitted') - Len(emitted)
               /\ \A j \in 1..Len(r.emitted) :
                     LET ep == emitted'[Len(emitted) + j].ep IN
                       /\ EndsWith(ep.name, role)
                       /\ EndsWith(r.emitted[j].name, t)
                       /\ SubSeq(ep.name, 1, Len(ep.name) - Len(role))
                            = SubSeq(r.emitted[j].name, 1,
                                     Len(r.emitted[j].name) - Len(t))
                       /\ SubSeq(ep.friendly_name, 1, Len(ep.friendly_name) - Len(role))
                            = SubSeq(r.emitted[j].friendly_name, 1,
                                     Len(r.emitted[j].friendly_name) - Len(t))]_vars

\* a handler called with the suffix of a slave has written endpoints of a
\* battery pack, named with that suffix
C11_Witness ==
    /\ op[1] = "_handle_battery_mode"
    /\ role = "_slave"
    /\ ret = Returned
    /\ \E j \in 1..Len(emitted) :
          /\ emitted[j].item = calls
          /\ EndsWith(emitted[j].ep.friendly_name, "_slave")
          /\ emitted[j].ep.internal_unique_id \in DOMAIN sensors
          /\ ~EndsWith(emitted[j].ep.internal_unique_id, "_slave")

----------------------------------------------------------------------------
(* Report key matching *)

\* the part of key before its first underscore has i - 1 characters
FirstUnderscore(key, i) ==
    /\ SubSeq(key, i, i) = "_"
    /\ \A j \in 1..(i - 1) : SubSeq(key, j, j) # "_"

\* C12: a key matches a report name iff it equals the name or, with its
\* leading segment up to the first underscore taken off, ends with the name;
\* for ENERGY_STREAM_REPORT the rest after the first underscore has to be the
\* name itself. RE307_ENERGY_STREAM_REPORT and JTS1_ENERGY_STREAM_REPORT
\* match ENERGY_STREAM_REPORT, RE307_EMS_PV_INV_ENERGY_STREAM_REPORT does not,
\* and ABC_BATTERY_REPORT matches BATTERY_REPORT.
C12_MatchingRule ==
    op[1] = "_is_matching_report" =>
       LET key == op[2]
           report == op[3]
           matched == ret[2]
       IN /\ ret[1] = "return"
          /\ matched \in BOOLEAN
          /\ matched <=>
                \/ key = report
                \/ \E i \in 1..Len(key) :
                      /\ FirstUnderscore(key, i)
                      /\ Len(key) - i >= Len(report)
                      /\ SubSeq(key, Len(key) - Len(report) + 1, Len(key)) = report
                      /\ report = "ENERGY_STREAM_REPORT" => Len(key) - i = Len(report)
          /\ (report = "ENERGY_STREAM_REPORT"
                /\ key \in {"RE307_ENERGY_STREAM_REPORT", "JTS1_ENERGY_STREAM_REPORT"})
               => matched
          /\ (report = "ENERGY_STREAM_REPORT"
                /\ key = "RE307_EMS_PV_INV_ENERGY_STREAM_REPORT") => ~matched
          /\ (report = "BATTERY_REPORT" /\ key = "ABC_BATTERY_REPORT") => matched

\* the key of another report that ends with the name of the energy stream
\* report was refused
C12_Witness ==
    /\ op = <<"_is_matching_report", "JTS1_PARALLEL_ENERGY_STREAM_REPORT",
              "ENERGY_STREAM_REPORT">>
    /\ ret = <<"return", FALSE>>

----------------------------------------------------------------------------
(* Serial decoding *)

\* the base64 text of a run of bytes
RECURSIVE EncodeBytes(_)
EncodeBytes(b) ==
    LET ch(v) == SubSeq(B64Alphabet, v + 1, v + 1) IN
    IF Len(b) = 0 THEN ""
    ELSE IF Len(b) = 1
    THEN ch(b[1] \div 4) \o ch((b[1] % 4) * 16) \o "=="
    ELSE IF Len(b) = 2
    THEN ch(b[1] \div 4) \o ch((b[1] % 4) * 16 + b[2] \div 16)
           \o ch((b[2] % 16) * 4) \o "="
    ELSE ch(b[1] \div 4) \o ch((b[1] % 4) * 16 + b[2] \div 16)
           \o ch((b[2] % 16) * 4 + b[3] \div 64) \o ch(b[3] % 64)
           \o EncodeBytes(SubSeq(b, 4, Len(b)))

\* base64.b64encode(text.encode()) of a printable ASCII text
Base64Encode(text) ==
    EncodeBytes([i \in 1..Len(text) |-> 31 + IndexIn(SubSeq(text, i, i), Ascii)])

\* the serials whose base64 text is among the inputs
SerialTexts == {"SN_TEST", "HJ31ZD1AZH5G", "SN", "P"}

\* s cannot be base64: its length is no multiple of four, or a character is
\* neither of the alphabet nor the padding sign
NotBase64(s) ==
    \/ Len(s) % 4 # 0
    \/ \E i \in 1..Len(s) :
          IndexIn(SubSeq(s, i, i), B64Alphabet) = 0 /\ SubSeq(s, i, i) # "="

\* C13: _decode_sn never raises; None and the empty string give None; the
\* base64 text of a serial gives the serial; a string that is not base64 is
\* returned unchanged; and whatever is returned for a non-empty string is the
\* string itself or the text it is the base64 encoding of.
C13_DecodeSnNeverRaises ==
    op[1] = "_decode_sn" =>
       LET value == op[2]
           result == ret[2]
       IN /\ ret[1] = "return"
          /\ result[1] \in {"null", "text"}
          /\ (value = Null \/ value = Text("")) => result = Null
          /\ \A t \in SerialTexts : value = Text(Base64Encode(t)) => result = Text(t)
          /\ (value[1] = "text" /\ value[2] # "" /\ NotBase64(value[2]))
               => result = value
          /\ (value[1] = "text" /\ value[2] # "")
               => (result = value \/ (result[1] = "text"
                                       /\ Base64Encode(result[2]) = value[2]))
          /\ (value = Text("U05fVEVTVA==")) => result = Text("SN_TEST")
          /\ (value = Text("SN_PLAIN")) => result = Text("SN_PLAIN")

\* a base64 serial was decoded
C13_Witness ==
    /\ Len(Ascii) = 95 /\ IndexIn("a", Ascii) = 66 /\ IndexIn("~", Ascii) = 95
    /\ op = <<"_decode_sn", Text("U05fVEVTVA==")>>
    /\ ret = <<"return", Text("SN_TEST")>>

\* a plain serial, on which the decoding fails, came back as it was
C13_WitnessPlain ==
    /\ op = <<"_decode_sn", Text("SN_PLAIN")>>
    /\ b64decode("SN_PLAIN")[1] = "raise"
    /\ ret = <<"return", Text("SN_PLAIN")>>

----------------------------------------------------------------------------
(* Loading the schema *)

\* C14: the schema is loaded lazily by the first extraction call and never
\* again: an extraction call on an engine whose schema was never loaded
\* explicitly does not raise for want of it and leaves the schema loaded, and
\* an extraction call on an engine that holds a schema leaves it as it is.
C14_LoadedLazilyOnce ==
    [][(op'[1] = "_get_sensors" /\ calls' = calls + 1 /\ IsDict(op'[2])) =>
          /\ sensor_config = <<"None">> =>
                (ret' # Raised("TypeError") /\ sensor_config' # <<"None">>)
          /\ sensor_config # <<"None">> => sensor_config' = sensor_config]_vars

\* C15: the schema an engine holds, and so the one its extractions consult,
\* is the schema of the engine's own model id: what loading the file
\* sensors_<variant>.yaml of its variant gives.
C15_SchemaOfOwnVariant ==
    sensor_config # <<"None">> =>
       sensor_config = load_sensor_config(sensors_yaml(ecoflow_variant))

----------------------------------------------------------------------------
(* The update cycle of the sensor entities *)

\* C16: in an update cycle a registered sensor whose unique id is not in the
\* cycle's extraction output keeps the state it had before the cycle, and no
\* sensor changes when the cycle's fetch raises; no sensor is added or dropped.
C16_AbsentKeepsState ==
    [][(op'[1] = "async_update_data" /\ calls' = calls + 1) =>
          /\ Len(hass'.device_specific_sensors) = Len(hass.device_specific_sensors)
          /\ hass'.registry = hass.registry
          /\ \A i \in 1..Len(hass.device_specific_sensors) :
                LET before == hass.device_specific_sensors[i]
                    after == hass'.device_specific_sensors[i]
                IN (op'[2] # Returned \/ before.unique_id \notin DOMAIN sensors')
                      => after = before]_vars

\* a cycle has ended in which one registered sensor had no endpoint and kept a
\* value, while another one took the value of its endpoint
C16_Witness ==
    /\ op = <<"async_update_data", Returned>>
    /\ \E i, j \in 1..Len(hass.device_specific_sensors) :
          LET absent == hass.device_specific_sensors[i]
              present == hass.device_specific_sensors[j]
          IN /\ absent.unique_id \notin DOMAIN sensors
             /\ hass.registry[absent.unique_id] = "enabled"
             /\ absent.state # Null
             /\ present.unique_id \in DOMAIN sensors
             /\ present.state = Num(6)
             /\ sensors[present.unique_id].value = Num(6)

----------------------------------------------------------------------------
(* The config flow *)

\* the name typed into the device options form and the title it has to give
ExpectedTitle(typed) ==
    CASE typed = "My PowerOcean" -> "My PowerOcean"
      [] typed = "  My  Power!Ocean " -> "My PowerOcean"
      [] typed = "!!!" -> "PowerOcean"
      [] typed = "Keller_1-A" -> "Keller_1-A"
      [] typed = "! Keller" -> " Keller"
      [] typed = "" -> "PowerOcean"

\* the step of the flow manager that has just run: its name and what was
\* typed into its form
StepRan(name, step) == flow.cur_step = step /\ op'[1] = name

\* C17: an entry is created only by the device options step of a flow whose
\* user step validated the device; the user step answers an input the
\* device accepts with the device options form and keeps the input; the
\* entry has the sanitized friendly name as its title, and its
\* data.user_input is what was typed into the user form.
C17_EntryAfterBothSteps ==
    [][/\ Len(flow'.entries) > Len(flow.entries) =>
            /\ StepRan("async_step_device_options", "device_options")
            /\ authorize(server) = Returned
            /\ Len(flow'.entries) = 1
            /\ flow'.result[1].type = "create_entry"
            /\ flow'.entries[1].title = ExpectedTitle(op'[2].friendly_name)
            /\ \A i \in 1..Len(flow'.entries[1].title) :
                  \/ InStr(SubSeq(flow'.entries[1].title, i, i), WordChars)
                  \/ SubSeq(flow'.entries[1].title, i, i) \in {" ", "-"}
            /\ flow'.entries[1].data[1].user_input.device_id = sn
            /\ flow'.entries[1].data[1].user_input.model_id = ecoflow_variant
            /\ flow'.entries[1].data[1].user_input \in UserInputs
            /\ flow'.entries[1].data[1].options.scan_interval = op'[2].scan_interval
            /\ flow'.cur_step = "done"
       /\ StepRan("async_step_user", "user") /\ authorize(server') = Returned =>
            /\ flow'.result[1].type = "form"
            /\ flow'.result[1].step_id = "device_options"
            /\ flow'.result[1].errors = ""
            /\ flow'.cur_step = "device_options"
            /\ flow'.user_input_from_step_user = <<op'[2]>>
            /\ flow'.unique_id = "PowerOcean_" \o op'[2].device_id
            /\ flow'.entries = <<>>
       /\ StepRan("async_step_user", "user") /\ authorize(server') # Returned =>
            /\ flow'.cur_step = "user"
            /\ flow'.entries = <<>>
      ]_vars

\* an entry titled "My PowerOcean" was created from the name
\* "  My  Power!Ocean " typed for a device of variant 85
C17_Witness ==
    /\ Len(op) = 2
    /\ op[1] = "async_step_device_options"
    /\ op[2].friendly_name = "  My  Power!Ocean "
    /\ Len(flow.entries) = 1
    /\ flow.entries[1].title = "My PowerOcean"
    /\ flow.entries[1].data[1].user_input.model_id = "85"
    /\ flow.entries[1].data[1].device_info.serial = "Device123"

\* the exceptions of authorize that are neither a connection error nor an
\* authentication error
Unexpected ==
    {Raised("ApiResponseError"), Raised("AttributeError"),
     Raised("FailedToExtractKeyError")}

\* C18: when authorize raises an exception that is neither a connection nor
\* an authentication error, the user step shows the user form again with
\* errors["base"] = "unknown", creates no entry and stays at the user step.
C18_UnexpectedShowsUnknown ==
    [][StepRan("async_step_user", "user") /\ authorize(server') \in Unexpected =>
            /\ flow'.result[1].type = "form"
            /\ flow'.result[1].step_id = "user"
            /\ flow'.result[1].errors = "unknown"
            /\ flow'.entries = flow.entries
            /\ flow'.cur_step = "user"
      ]_vars

\* the part of C18 the code keeps: no entry, and the flow does not advance
C18_UnexpectedStays ==
    [][StepRan("async_step_user", "user") /\ authorize(server') \in Unexpected =>
            /\ flow'.entries = flow.entries
            /\ flow'.cur_step = "user"
            /\ ret' = Raised("NameError")
      ]_vars

----------------------------------------------------------------------------
(* Reports without content, batteries without JSON *)

\* the step that has just run is a call of _extract_sensors_from_report_org
ReportOrgRan ==
    op'[1] \in {"_handle_standard_mode", "_handle_battery_mode",
                "_handle_ems_heartbeat_mode", "_handle_parallel_energy_stream"}

\* the report is in the sub-tree neither under its name nor under its
\* RE307_ name
AbsentReport(base, report) ==
    /\ ~HasKey(base, report)
    /\ ~HasKey(base, ReplaceAll(report, "JTS1_", "RE307_"))

\* the report is in the sub-tree, under its name or its RE307_ name, with a
\* value that is empty
EmptyValue(base, report) ==
    \/ HasKey(base, report) /\ ~Truthy(Get(base, report))
    \/ /\ ~HasKey(base, report)
       /\ HasKey(base, ReplaceAll(report, "JTS1_", "RE307_"))
       /\ ~Truthy(Get(base, ReplaceAll(report, "JTS1_", "RE307_")))

\* C19: a call of _extract_sensors_from_report_org for a report that is
\* absent from the sub-tree, also under its renamed prefix, or present with
\* an empty value returns without raising and leaves the sensors as they
\* were.
C19_NoContentReturnsUnchanged ==
    [][ReportOrgRan /\ (AbsentReport(op'[2], op'[3]) \/ EmptyValue(op'[2], op'[3])) =>
            /\ ret' = Returned
            /\ sensors' = sensors
            /\ emitted' = emitted
      ]_vars

\* the part of C19 the code keeps: the absent report
C19_AbsentReturnsUnchanged ==
    [][ReportOrgRan /\ AbsentReport(op'[2], op'[3]) =>
            /\ ret' = Returned
            /\ sensors' = sensors
            /\ emitted' = emitted
      ]_vars

\* a call for a report that is absent has returned
C19_AbsentRan ==
    /\ op[1] = "_handle_standard_mode"
    /\ AbsentReport(op[2], op[3])
    /\ ret = Returned

\* the keys of the body d that _handle_battery_mode takes for batteries
BatteryKeys(d) == {k \in {d[2][i][1] : i \in 1..Len(d[2])} : Len(k) > LENGTH_BATTERIE_SN}

\* the battery holds a string that does not decode as JSON
Undecoded(d, bat) == Get(d, bat)[1] = "text"

\* the unique ids in sens of the battery bat of the report
IdsOfBattery(sens, report, bat) ==
    {u \in DOMAIN sens : Contains(u, "_" \o report \o "_" \o bat \o "_")}

\* C20: in the extraction of the batteries a key whose string value fails to
\* decode as JSON is skipped without raising, and the other batteries of the
\* report are still processed and emitted.
C20_UndecodedBatterySkipped ==
    [][op'[1] = "_handle_battery_mode" /\ HasKey(op'[2], op'[3]) =>
         LET d == Get(op'[2], op'[3]) IN
         (\E bat \in BatteryKeys(d) : Undecoded(d, bat)) =>
            /\ ret' = Returned
            /\ \A bat \in BatteryKeys(d) :
                  IF Undecoded(d, bat)
                  THEN IdsOfBattery(sensors', op'[3], bat) = {}
                  ELSE sn_inverter \o "_" \o op'[3] \o "_" \o bat \o "_bpPwr"
                          \in DOMAIN sensors'
      ]_vars

\* what the code does instead: the call raises JSONDecodeError, and only the
\* batteries that come before the undecoded one in the reversed order of
\* the keys are emitted
C20_UndecodedBatteryRaises ==
    [][op'[1] = "_handle_battery_mode" /\ HasKey(op'[2], op'[3]) =>
         LET d == Get(op'[2], op'[3]) IN
         \A bad \in BatteryKeys(d) : Undecoded(d, bad) =>
            /\ ret' = Raised("JSONDecodeError")
            /\ IdsOfBattery(sensors', op'[3], bad) = {}
            /\ \A bat \in BatteryKeys(d) \ {bad} :
                  (sn_inverter \o "_" \o op'[3] \o "_" \o bat \o "_bpPwr"
                       \in DOMAIN sensors')
                  <=> \E i, j \in 1..Len(d[2]) :
                         d[2][i][1] = bad /\ d[2][j][1] = bat /\ j > i
      ]_vars

----------------------------------------------------------------------------
(* The EMS heartbeat with parts missing *)

\* the unique ids the step that has just run has written
WrittenIds ==
    {emitted'[j].ep.internal_unique_id : j \in (Len(emitted) + 1)..Len(emitted')}

\* the unique ids among ids of the phase objects of the report
PhaseIds(ids, report) ==
    {u \in ids :
        \E p \in {"pcsAPhase", "pcsBPhase", "pcsCPhase"} :
            Contains(u, "_" \o report \o "_" \o p \o "_")}

\* every string of the body has a number for its pwr, or none (the total of
\* the strings is defined)
NumericStrings(d) ==
    HasKey(d, "mpptHeartBeat") /\ Get(d, "mpptHeartBeat") # Arr(<<>>) =>
        TotalDefined(Get(Get(d, "mpptHeartBeat")[2][1], "mpptPv")[2])

\* C21: for any EMS heartbeat body, also one with only some of the three
\* phase objects or with an empty mpptHeartBeat array, the handler returns
\* without raising; phase endpoints are emitted only when all three phase
\* objects are present, and the endpoints of the other parts that are
\* present (the selected keys, the strings) are still returned.
C21_PartialHeartbeatReturns ==
    [][op'[1] = "_handle_ems_heartbeat_mode" /\ HasKey(op'[2], op'[3]) =>
         LET d == Get(op'[2], op'[3])
             uid == sn_inverter \o "_" \o op'[3]
         IN NumericStrings(d) =>
            /\ ret' = Returned
            /\ PhaseIds(WrittenIds, op'[3]) # {} =>
                  \A p \in {"pcsAPhase", "pcsBPhase", "pcsCPhase"} : HasKey(d, p)
            /\ HasKey(d, "bpRemainWatth") =>
                  (uid \o "_bpRemainWatth") \in DOMAIN sensors'
            /\ HasKey(d, "mpptHeartBeat") /\ Get(d, "mpptHeartBeat") # Arr(<<>>) =>
                  (uid \o "_mpptHeartBeat_mpptPv_pwrTotal") \in DOMAIN sensors'
      ]_vars

\* what the code does: the handler raises KeyError exactly when pcsBPhase is
\* there without pcsAPhase or pcsCPhase, IndexError when mpptHeartBeat is
\* empty, and returns otherwise
C21_PartialHeartbeatRaises ==
    [][op'[1] = "_handle_ems_heartbeat_mode" /\ HasKey(op'[2], op'[3]) =>
         LET d == Get(op'[2], op'[3]) IN
         /\ HasKey(d, "pcsBPhase") /\ ~(HasKey(d, "pcsAPhase") /\ HasKey(d, "pcsCPhase"))
               => ret' = Raised("KeyError")
         /\ ~HasKey(d, "pcsBPhase") /\ HasKey(d, "mpptHeartBeat")
               /\ Get(d, "mpptHeartBeat") = Arr(<<>>)
               => ret' = Raised("IndexError")
         /\ ~HasKey(d, "pcsBPhase") /\ HasKey(d, "mpptHeartBeat")
               /\ Get(d, "mpptHeartBeat") # Arr(<<>>) /\ NumericStrings(d)
               => ret' = Returned /\ PhaseIds(WrittenIds, op'[3]) = {}
      ]_vars

----------------------------------------------------------------------------
(* Sensor specs that match nothing *)

\* the i-th sensor has a field and its path matches nothing in the data read
NoMatch(i) == ItemSpec(i).field # "" /\ ItemMatches(i) = <<>>

C22_WitnessAfter ==
    /\ Extracted
    /\ Len(Items) = 2
    /\ ProducedBy(1) # {} /\ NoMatch(2)
    /\ Cardinality(DOMAIN sensors) = 1

----------------------------------------------------------------------------
(* The plain key/value handler *)

\* the name under which the sub-tree holds the report of the step
StepReport ==
    IF HasKey(op'[2], op'[3]) THEN op'[3] ELSE ReplaceAll(op'[3], "JTS1_", "RE307_")

\* the plain handler has just run on a report body that is a dict
StandardRan ==
    /\ op'[1] = "_handle_standard_mode"
    /\ HasKey(op'[2], StepReport)
    /\ IsDict(Get(op'[2], StepReport))
    /\ Get(op'[2], StepReport) # Obj(<<>>)

\* the unique id the plain handler gives the field key of the report
StandardId(key) ==
    sn_inverter \o (IF StepReport = "data" THEN "" ELSE "_" \o StepReport) \o "_" \o key

\* the field is named in the selection list of the report in the datapoint
\* file
InSelection(key) ==
    /\ HasKey(datapointfile[2], StepReport)
    /\ \E i \in 1..Len(Get(datapointfile[2], StepReport)[2]) :
          Get(datapointfile[2], StepReport)[2][i] = Text(key)

\* C23: the plain handler emits an endpoint for a field only if the field is
\* named in the selection list of the report and its value is a scalar: none
\* for a field whose value is an object or an array, none for a field outside
\* the list.
C23_SelectedScalarsOnly ==
    [][StandardRan =>
         \A i \in 1..Len(Get(op'[2], StepReport)[2]) :
            LET kv == Get(op'[2], StepReport)[2][i] IN
            StandardId(kv[1]) \in WrittenIds =>
               /\ InSelection(kv[1])
               /\ kv[2][1] \notin {"obj", "arr"}
      ]_vars

\* what the code does: an endpoint for every selected field whose value is
\* not an object, arrays included, and for no other field
C23_SelectedNonObjects ==
    [][StandardRan =>
         /\ ret' = Returned
         /\ \A i \in 1..Len(Get(op'[2], StepReport)[2]) :
               LET kv == Get(op'[2], StepReport)[2][i] IN
               StandardId(kv[1]) \in WrittenIds
                  <=> (InSelection(kv[1]) /\ kv[2][1] # "obj")
         /\ WrittenIds \subseteq
               {StandardId(Get(op'[2], StepReport)[2][i][1]) :
                   i \in 1..Len(Get(op'[2], StepReport)[2])}
      ]_vars

----------------------------------------------------------------------------
(* Unit, description and icon inference *)

\* the keys asked about that are in no table of ecoflow.py, and those that
\* are in no table of utils.py
UnmappedKeys == {"pwrMode", "evMode", "devSn", "x", "", "emsWorkState", "Pv1Pos"}
Undescribed == MetaKeys \ {"bpPwr", "bpSoc", "bpAmp", "bpCycles", "mpptPwr",
                           "online", "sysGridPwr"}
WithoutIcon == MetaKeys \ {"bpAmp", "mpptPwr", "online", "sysGridPwr", "pv1Pwr",
                           "pv3InputVolt"}
WithoutUnit == UnmappedKeys \cup {"bpCycles", "online", "bpCapacity",
                                  "bpTemperatureMax", "pv3InputVolt"}
WithoutUnitUtils == UnmappedKeys \cup {"bpCycles", "online", "pv3InputVolt"}

\* C24: unit, description and icon inference return for every key, and a
\* key that matches no table entry yields unit None, the key itself as
\* description and icon None, in the implementation of ecoflow.py and in the
\* one of utils.py.
C24_UnmappedKeyDefaults ==
    op[1] = "SensorMetaHelper" =>
        /\ ret[1] = "return"
        /\ Len(ret[2]) = 6
        /\ op[2] \in WithoutUnit => ret[2][1] = "None"
        /\ op[2] \in Undescribed => ret[2][2] = op[2]
        /\ op[2] \in WithoutIcon => ret[2][3] = "None"
        /\ op[2] \in WithoutUnitUtils => ret[2][4] = "None"
        /\ op[2] \in Undescribed => ret[2][5] = op[2]
        /\ op[2] \in WithoutIcon => ret[2][6] = "None"
        /\ op[2] \notin WithoutUnit => ret[2][1] # "None"
        /\ op[2] \notin WithoutUnitUtils => ret[2][4] # "None"

\* C24 witness: pwrMode, which holds the suffix pwr without ending with it,
\* has no unit, itself as description and no icon in both implementations
C24_Witness ==
    /\ op = <<"SensorMetaHelper", "pwrMode">>
    /\ ret = <<"return", <<"None", "pwrMode", "None", "None", "pwrMode", "None">> >>

----------------------------------------------------------------------------
(* The serial of a sub-device *)

\* the value the payload of the step holds at the configured path, which has
\* one or two keys; None when there is none
ValueAtPath ==
    LET payload == op[2]
        path == op[3][2]
    IN IF ~HasKey(payload, path[1]) THEN Null
       ELSE IF Len(path) = 1 THEN Get(payload, path[1])
       ELSE IF Get(payload, path[1])[1] # "obj" THEN Null
       ELSE IF ~HasKey(Get(payload, path[1]), path[2]) THEN Null
       ELSE Get(Get(payload, path[1]), path[2])

\* C25: with an sn_path configured, the serial is the value at that path in
\* the payload, decoded when it is the base64 text of a serial and unchanged
\* when it is not base64; without sn_path it is the outer key; and when the
\* value at the path is not a string the result is None.
C25_BoxSerial ==
    op[1] = "_extract_box_sn" =>
        /\ ret[1] = "return"
        /\ op[3][1] = "None" => ret[2] = Text(op[4])
        /\ op[3][1] = "path" =>
              /\ ValueAtPath[1] # "text" => ret[2] = Null
              /\ \A t \in SerialTexts :
                    ValueAtPath = Text(Base64Encode(t)) => ret[2] = Text(t)
              /\ (ValueAtPath[1] = "text" /\ ValueAtPath[2] # ""
                     /\ NotBase64(ValueAtPath[2])) => ret[2] = ValueAtPath
              /\ ret[2] # Text(op[4])

\* C25 witness: the serial at info.sn was decoded
C25_Witness ==
    /\ op = <<"_extract_box_sn",
              Obj(<< <<"info", Obj(<< <<"sn", Text("U05fVEVTVA==")>> >>)>> >>),
              <<"path", <<"info", "sn">> >>, "FALLBACK">>
    /\ ret = <<"return", Text("SN_TEST")>>

\* C25 witness: a number at the path gives None
C25_WitnessInvalid ==
    /\ op = <<"_extract_box_sn", Obj(<< <<"sn", Num(123)>> >>),
              <<"path", <<"sn">> >>, "FALLBACK">>
    /\ ret = <<"return", Null>>

----------------------------------------------------------------------------
(* The response document after an extraction *)

\* the string fields of the value v that hold embedded JSON, as paths of keys
\* and positions
RECURSIVE EmbeddedJson(_)
EmbeddedJson(v) ==
    IF v[1] = "json" THEN {<<>>}
    ELSE IF v[1] = "obj"
    THEN UNION {{<<v[2][i][1]>> \o p : p \in EmbeddedJson(v[2][i][2])} :
                  i \in 1..Len(v[2])}
    ELSE IF v[1] = "arr"
    THEN UNION {{<<i>> \o p : p \in EmbeddedJson(v[2][i])} : i \in 1..Len(v[2])}
    ELSE {}

\* C26: _get_sensors leaves the response document it is given unchanged:
\* every key still maps to the value it had before the call, and the string
\* fields that hold embedded JSON are still strings.
C26_ResponseUnchanged ==
    [][op'[1] = "_get_sensors" =>
          /\ response' = response
          /\ EmbeddedJson(response') = EmbeddedJson(response)
      ]_vars

\* what the code does: the document changes exactly when a dict or list under
\* data holds a string of embedded JSON
C26_EmbeddedJsonDecoded ==
    [][op'[1] = "_get_sensors" =>
          (response' # response
              <=> \E p \in EmbeddedJson(response) : Len(p) >= 2 /\ p[1] = "data")
      ]_vars

----------------------------------------------------------------------------
(* Setting up and unloading a config entry *)

SetupRan == op[1] = "async_setup_entry"

\* the scan interval the entry was configured with: the one of the options
\* flow when it ran, else the one of the config flow
Configured(entry) ==
    IF HasKey(entry.options, "scan_interval")
    THEN Get(entry.options, "scan_interval")[2]
    ELSE Get(entry.data_options, "scan_interval")[2]

\* C28: whenever async_setup_entry returns False, hass.data[DOMAIN] holds no
\* engine for the entry, whichever step failed: the authorization, the
\* forwarding to the platforms or the registration of the device.
C28_FailedSetupStoresNothing ==
    [][(SetupRan' /\ ret' = <<"return", FALSE>>) => ~hass'.data]_vars

\* what the code does: a failed authorization leaves hass.data as it was,
\* after a failed forwarding or registration the engine stays in hass.data
C28_FailedSetupKeepsEngine ==
    [][(SetupRan' /\ ret' = <<"return", FALSE>>)
          => (hass'.data <=> (op'[2] = Returned \/ hass.data))]_vars

C28_FailedAfterStore ==
    SetupRan /\ ret = <<"return", FALSE>> /\ op[2] = Returned /\ hass.data

C29_PeriodIsDefault ==
    \A t \in 1..Len(hass.timers) : hass.timers[t].period = 60

C29_TimerStarted ==
    /\ SetupRan
    /\ Len(hass.timers) > 0
    /\ Configured(hass.entry) = 10

\* a timer of a setup that was unloaded since
Unloaded(h, timer) == h.timers[timer].setup <= h.last_unloaded

C27_SilentUntilSetUpAgain ==
    [][(op'[1] = "async_update_data" /\ Unloaded(hass, op'[2])
          /\ hass.state = "not_loaded" /\ hass.setups = hass.last_unloaded)
          => /\ op'[3] = "skipped"
             /\ ret' = <<"return", FALSE>>
             /\ UNCHANGED <<hass, server, sensors, emitted>>]_vars

C27_SilentFiring ==
    /\ op[1] = "async_update_data"
    /\ op[3] = "skipped"
    /\ hass.last_unloaded > 0

C27_OldTimerFetches ==
    /\ op[1] = "async_update_data"
    /\ op[3] = "fetched"
    /\ hass.timers[op[2]].setup <= hass.last_unloaded

----------------------------------------------------------------------------
(* The sanitizer of device names *)

SanitizeRan == op[1] = "sanitize_device_name"

Blank(s) == Len(s) > 0 /\ \A i \in 1..Len(s) : SubSeq(s, i, i) = " "

\* C30: sanitize_device_name is idempotent for every name, fallback and
\* maximum length, and a name it returns has no leading or trailing
\* whitespace and is never only whitespace.
C30_SanitizeIdempotent ==
    SanitizeRan =>
        /\ sanitize_device_name(ret[2], op[3], op[4]) = ret[2]
        /\ Strip(ret[2]) = ret[2]
        /\ ~Blank(ret[2])

\* what the code does: the name is never longer than the maximum, and a name
\* that is not the fallback has only allowed characters and single blanks
C30_SanitizedShape ==
    SanitizeRan =>
        /\ Len(ret[2]) <= op[4]
        /\ \/ ret[2] = SubSeq(op[3], 1, IF Len(op[3]) < op[4] THEN Len(op[3]) ELSE op[4])
           \/ /\ KeepAllowed(ret[2]) = ret[2]
              /\ CollapseBlanks(ret[2]) = ret[2]

C30_NotIdempotent ==
    /\ SanitizeRan
    /\ op[2] = "! Keller"
    /\ ret[2] = " Keller"
    /\ sanitize_device_name(ret[2], op[3], op[4]) = "Keller"

C30_OnlyWhitespace ==
    SanitizeRan /\ op[2] = "! !" /\ ret[2] = " "
====
